---- MODULE Spec2Model ----
(***************************************************************************)
(* Synchronization pipelines of AndCORER: the Amazon Reports order sync,   *)
(* the Shopify order sync and the Logisp inventory sync, each staging its  *)
(* rows in a BigQuery temp table, sleeping 90 seconds, merging into the    *)
(* durable tables and deleting the temp table.                             *)
(***************************************************************************)
EXTENDS Integers, Sequences, FiniteSets, Bags, TLC

\* ------------------------------------------------------------------ bounds
MaxRuns == 2       \* invocations of the cloud functions in one behaviour
MaxRecs == 2       \* raw records returned by one fetch
ConcRecs == 1      \* the same, when invocations overlap
TickMs == 45000    \* granularity of the passage of time

\* ------------------------------------------------------- program constants
batchSizeDoubled == 500 * 2
batchSize == 500          \* rows per staging insert
amazonSleepMsHalved == 90000 \div 2
amazonSleepMs == 90000    \* sleep(90000) of the Amazon sync
shopifySleepMs == 90000   \* setTimeout(resolve, 90000) of the Shopify sync
logispSleepMs == 90000    \* sleep(90000) of the Logisp sync
MaxTimerMs == 90000       \* elapsed times are not distinguished beyond this

Slots == {1, 2}
Accounts == {1, 2}

\* ------------------------------------------------------------------- state
VARIABLES
  conc,        \* how many invocations the platform lets overlap
  nstarted,    \* invocations started so far
  run,         \* per invocation: its position and its local variables
  temp,        \* the staging tables of dataset andcore_main, by name
  orders,      \* durable table andcore_main.orders (a bag of rows)
  order_items, \* durable table andcore_main.order_items
  inventory,   \* durable table andcore_main.inventory
  lastTs,      \* the last value Date.now() returned
  sameMs,      \* no millisecond is known to have passed since that call
  atStart,     \* the durable tables as the latest invocation found them
  frozen,      \* the upstream data does not change between invocations
  upstream     \* frozen: the function invoked and what its fetch returns

vars == <<conc, nstarted, run, temp, orders, order_items, inventory,
          lastTs, sameMs, atStart, frozen, upstream>>

\* ------------------------------------------------------------ bag helpers
\* the sub-bag of B on the rows D
Restrict(B, D) == [x \in D |-> B[x]]

\* the rows of a batch with their multiplicities
SeqToBag(s) ==
  [x \in {s[k] : k \in DOMAIN s} |->
     Cardinality({k \in DOMAIN s : s[k] = x})]

\* the sum of a bag of numbers
RECURSIVE SumBag(_)
SumBag(B) ==
  IF DOMAIN B = {} THEN 0
  ELSE LET x == CHOOSE y \in DOMAIN B : TRUE
       IN  B[x] * x + SumBag([y \in DOMAIN B \ {x} |-> B[y]])

Min(a, b) == IF a < b THEN a ELSE b

SeqsUpTo(S, n) == UNION {[1..k -> S] : k \in 0..n}

\* --------------------------------------------------------- staging tables
\* The sink: a table exists iff its name is in DOMAIN temp.
Exists(name) == name \in DOMAIN temp

CreateTable(name) == [n \in DOMAIN temp \cup {name} |->
                        IF n = name THEN EmptyBag ELSE temp[n]]

DropTable(name) == [n \in DOMAIN temp \ {name} |-> temp[n]]

InsertRows(name, batch) == [temp EXCEPT ![name] = @ (+) SeqToBag(batch)]

\* what a MERGE finds under the name of its staging table
TableRead(of, name) ==
  [of |-> of, exists |-> Exists(name),
   rows |-> IF Exists(name) THEN temp[name] ELSE EmptyBag]

\* ------------------------------------------------------------------ MERGE
\* MERGE T USING S ON T.c = S.c for the columns c of on
\*   WHEN MATCHED THEN UPDATE SET c = S.c for the columns c of set,
\*                                c = stamp.c for the columns of stamp
\*   WHEN NOT MATCHED THEN INSERT the source row.
\* A target row matched by more than one source row makes the statement
\* fail; every unmatched source row is inserted, equal rows included.
KeyOf(r, on) == [k \in 1..Len(on) |-> r[on[k]]]

Matches(S, on, t) ==
  Restrict(S, {x \in DOMAIN S : KeyOf(x, on) = KeyOf(t, on)})

MergeFails(T, S, on) ==
  \E t \in DOMAIN T : BagCardinality(Matches(S, on, t)) > 1

RECURSIVE Assign(_, _, _)
Assign(t, src, cols) ==
  IF cols = {} THEN t
  ELSE LET c == CHOOSE x \in cols : TRUE
       IN  Assign([t EXCEPT ![c] = src[c]], src, cols \ {c})

NoStamp == <<>>

\* a MERGE with WHEN NOT MATCHED BY SOURCE THEN DELETE: the target rows the
\* source does not match are removed
MergeResultDeleting(T, S, on, set, stamp) ==
  LET updated(t) ==
        Assign(Assign(t, CHOOSE x \in DOMAIN S :
                            KeyOf(x, on) = KeyOf(t, on), set),
               stamp, DOMAIN stamp)
      matched == Restrict(T, {t \in DOMAIN T :
                    \E x \in DOMAIN S : KeyOf(x, on) = KeyOf(t, on)})
      unmatched == Restrict(S, {x \in DOMAIN S :
                      \A t \in DOMAIN T : KeyOf(t, on) # KeyOf(x, on)})
  IN  BagOfAll(updated, matched) (+) unmatched

\* a MERGE whose ON clause never matches: every source row is inserted
MergeResultInsertOnly(T, S, on, set, stamp) == T (+) S

MergeResult(T, S, on, set, stamp) ==
  LET updated(t) ==
        IF DOMAIN Matches(S, on, t) = {} THEN t
        ELSE Assign(Assign(t, CHOOSE x \in DOMAIN S :
                                 KeyOf(x, on) = KeyOf(t, on), set),
                    stamp, DOMAIN stamp)
      unmatched == Restrict(S, {x \in DOMAIN S :
                      \A t \in DOMAIN T : KeyOf(t, on) # KeyOf(x, on)})
  IN  BagOfAll(updated, T) (+) unmatched

ordersOn == <<"order_id", "channel">>
orderItemsOn == <<"order_id", "channel", "line_item_id">>
inventoryOn == <<"sku", "location">>

OrderKey(r) == KeyOf(r, ordersOn)
ItemKey(r) == KeyOf(r, orderItemsOn)
InventoryKey(r) == KeyOf(r, inventoryOn)

\* ------------------------------------------------------------ invocations
NoRead == [of |-> "none", exists |-> FALSE, rows |-> EmptyBag]
NoUpstream == [kind |-> "none", acct |-> 0, fetched |-> FALSE, source |-> <<>>]
\* the locals of a fetch loop, when the fetch is followed step by step
NoFetch == [phase |-> "none"]

IdleRun ==
  [kind |-> "none", pc |-> "idle", no |-> 0, acct |-> 0,
   alone |-> FALSE, rerun |-> FALSE,
   reportData |-> <<>>, allOrders |-> <<>>,
   ordersForBQ |-> <<>>, orderItemsForBQ |-> <<>>,
   inventoryData |-> <<>>, productMaster |-> <<>>, inventoryRows |-> <<>>,
   i |-> 0, timestamp |-> 0, slept |-> 0, age |-> 0,
   outcome |-> "none", error |-> "none", log |-> <<>>, read |-> NoRead,
   fetch |-> NoFetch]

Active(r) == r.pc \notin {"idle", "done"}

Event(r, op, ok) == [op |-> op, ok |-> ok, age |-> r.age]

\* a call has returned normally
Called(r, op) == [r EXCEPT !.log = Append(@, Event(r, op, TRUE))]

\* a call has thrown: the handler's catch block answers 500
Thrown(r, op) ==
  [r EXCEPT !.log = Append(@, Event(r, op, FALSE)),
            !.pc = "done", !.outcome = "error", !.error = op]

\* the handler calls its 90 second sleep
Sleeping(r) == [r EXCEPT !.log = Append(@, Event(r, "sleep", TRUE)),
                         !.slept = 0, !.pc = "sleep"]

\* the handler answers success
Responded(r) == [r EXCEPT !.pc = "done", !.outcome = "success"]

TypeOK ==
  /\ conc \in 1..2
  /\ nstarted \in 0..MaxRuns
  /\ DOMAIN run = Slots
  /\ lastTs \in 0..MaxRuns
  /\ sameMs \in BOOLEAN

Init ==
  /\ conc = 1
  /\ nstarted = 0
  /\ run = [s \in Slots |-> IdleRun]
  /\ temp = <<>>
  /\ orders = EmptyBag
  /\ order_items = EmptyBag
  /\ inventory = EmptyBag
  /\ lastTs = 0
  /\ sameMs = FALSE
  /\ atStart = [orders |-> EmptyBag, order_items |-> EmptyBag,
                inventory |-> EmptyBag]
  /\ frozen = FALSE
  /\ upstream = NoUpstream

\* An invocation of one of the three HTTP functions begins.  It takes the
\* lowest slot that is free.  It repeats the previous invocation when the
\* upstream is frozen and that invocation ran alone and answered success.
Start(s, kind, acct) ==
  /\ nstarted < MaxRuns
  /\ ~Active(run[s])
  /\ \A t \in Slots : t < s => Active(run[t])
  /\ Cardinality({t \in Slots : Active(run[t])}) < conc
  /\ frozen /\ upstream.kind # "none"
       => upstream.kind = kind /\ upstream.acct = acct
  /\ LET others == {t \in Slots : Active(run[t])}
         last == {t \in Slots : run[t].no = nstarted /\ run[t].pc = "done"
                                  /\ run[t].alone
                                  /\ run[t].outcome = "success"}
     IN  run' = [t \in Slots |->
                  IF t = s
                  THEN [IdleRun EXCEPT !.kind = kind, !.pc = "fetch",
                                       !.no = nstarted + 1, !.acct = acct,
                                       !.alone = (others = {}),
                                       !.rerun = /\ others = {}
                                                 /\ last # {}
                                                 /\ upstream.fetched]
                  ELSE IF Active(run[t])
                       THEN [run[t] EXCEPT !.alone = FALSE]
                       ELSE run[t]]
  /\ upstream' = IF frozen /\ upstream.kind = "none"
                 THEN [NoUpstream EXCEPT !.kind = kind, !.acct = acct]
                 ELSE upstream
  /\ nstarted' = nstarted + 1
  /\ atStart' = [orders |-> orders, order_items |-> order_items,
                 inventory |-> inventory]
  /\ UNCHANGED <<conc, temp, orders, order_items, inventory, lastTs, sameMs,
                 frozen>>

\* how many records a fetch returns at most
RecsBound == IF conc = 1 THEN MaxRecs ELSE ConcRecs

\* what a fetch can return: anything, or what it returned before
Fetchable(all) == IF upstream.fetched THEN {upstream.source} ELSE all

Fetched(source) ==
  IF frozen THEN [upstream EXCEPT !.fetched = TRUE, !.source = source]
  ELSE upstream

\* a run whose clocks matter: it has staged rows and has not finished
Timed(r) ==
  /\ \/ r.pc \in {"sleep", "mergeOrders", "mergeItems", "merge",
                   "createItemsTable", "insertItems"}
     \/ r.pc \in {"insert", "insertOrders"} /\ r.i > 0
  /\ r.age < MaxTimerMs \/ r.slept < MaxTimerMs

\* Time passes: the sleeping runs and the age of every staged batch advance.
Tick ==
  /\ sameMs \/ \E s \in Slots : Timed(run[s])
  /\ run' = [s \in Slots |->
               IF Timed(run[s])
               THEN [run[s] EXCEPT !.slept = Min(@ + TickMs, MaxTimerMs),
                                   !.age = Min(@ + TickMs, MaxTimerMs)]
               ELSE run[s]]
  /\ sameMs' = FALSE
  /\ UNCHANGED <<conc, nstarted, temp, orders, order_items, inventory,
                 lastTs, atStart, frozen, upstream>>

\* ===================================================== Amazon Reports sync
tempTableId == <<"orders_temp_amazon", 0>>

AmazonChannel(acct) == IF acct = 1 THEN "Amazon-JP-1" ELSE "Amazon-JP-2"
AmazonAccountName(acct) == IF acct = 1 THEN "Amazon JP 1" ELSE "Amazon JP 2"

\* Report rows the upstream can return: an order line in one of two
\* variants (buyer and quantity differ), with or without an order-item-id,
\* and a row that lacks the amazon-order-id.
Variants == {1, 2}
ReportRow(oid, item, v) ==
  [amazon_order_id |-> oid, order_item_id |-> item,
   buyer_name |-> IF v = 1 THEN "x" ELSE "y",
   quantity_purchased |-> v, item_price |-> 100]
ReportRows ==
  {ReportRow("o1", item, v) : item \in {"", "i1"}, v \in Variants}
  \cup {ReportRow("", "", 1)}

\* one TSV row with an amazon-order-id becomes one staged row
ParsedRow(row, acct, now) ==
  [order_id |-> <<row.amazon_order_id>>,
   channel |-> AmazonChannel(acct),
   account_name |-> AmazonAccountName(acct),
   customer_name |-> row.buyer_name,
   total_amount |-> row.item_price,
   created_at |-> now,
   updated_at |-> now,
   line_item_id |-> IF row.order_item_id # "" THEN <<row.order_item_id>>
                    ELSE <<row.amazon_order_id, "-1">>,
   quantity |-> row.quantity_purchased]

parseReportData(reportData, acct, now) ==
  LET kept == SelectSeq(reportData, LAMBDA row : row.amazon_order_id # "")
  IN  [k \in 1..Len(kept) |-> ParsedRow(kept[k], acct, now)]

\* the same USING clause without the GROUP BY: SELECT DISTINCT alone
AmazonOrderSourcesUngrouped(T) ==
  {SetToBag({[order_id |-> r.order_id, channel |-> r.channel,
              account_name |-> r.account_name,
              customer_name |-> r.customer_name,
              total_amount |-> r.total_amount,
              created_at |-> r.created_at,
              updated_at |-> r.updated_at] : r \in DOMAIN T})}

\* The USING clause of the orders MERGE: one row per (order_id, channel),
\* amounts summed, every other column ANY_VALUE of the group.
AmazonOrderSources(T) ==
  LET keys == {OrderKey(r) : r \in DOMAIN T}
      group(k) == Restrict(T, {r \in DOMAIN T : OrderKey(r) = k})
      total(k) == SumBag(BagOfAll(LAMBDA r : r.total_amount, group(k)))
      candidates(k) ==
        {[order_id |-> k[1], channel |-> k[2], account_name |-> a,
          customer_name |-> c, total_amount |-> total(k),
          created_at |-> ca, updated_at |-> ua] :
           a \in {r.account_name : r \in DOMAIN group(k)},
           c \in {r.customer_name : r \in DOMAIN group(k)},
           ca \in {r.created_at : r \in DOMAIN group(k)},
           ua \in {r.updated_at : r \in DOMAIN group(k)}}
      choices == {f \in [keys -> UNION {candidates(k) : k \in keys}] :
                    \A k \in keys : f[k] \in candidates(k)}
  IN  {SetToBag({f[k] : k \in keys}) : f \in choices}

\* an UPDATE SET that also assigns created_at = S.created_at
AmazonOrderSetWithCreatedAt == {"customer_name", "total_amount", "created_at"}

\* UPDATE SET of the orders MERGE; customer_name stands for the columns
\* taken by ANY_VALUE, total_amount for the summed ones.  account_name and
\* created_at are not set; updated_at = CURRENT_TIMESTAMP().
AmazonOrderSet == {"customer_name", "total_amount"}
AmazonOrderStamp(now) == [updated_at |-> now]

\* The USING clause of the order_items MERGE: every staged row.
AmazonItemSource(T) ==
  BagOfAll(LAMBDA r : [order_id |-> r.order_id, channel |-> r.channel,
                       line_item_id |-> r.line_item_id,
                       quantity |-> r.quantity,
                       quantity_fulfilled |-> 0,
                       quantity_unfulfilled |-> r.quantity,
                       created_at |-> r.created_at], T)

\* UPDATE SET of the order_items MERGE: the fulfilled and unfulfilled
\* quantities are not set.
AmazonItemSet == {"quantity"}

AmazonStart(s) == \E acct \in Accounts : Start(s, "amazon", acct)

\* The report loop and parseReportData, up to the zero-orders answer.
AmazonFetch(s) ==
  /\ run[s].kind = "amazon" /\ run[s].pc = "fetch"
  /\ \/ \E reportData \in Fetchable(SeqsUpTo(ReportRows, RecsBound)) :
          LET r == run[s]
              allOrders == parseReportData(reportData, r.acct, r.no)
              got == [r EXCEPT !.reportData = reportData,
                               !.allOrders = allOrders]
          IN  /\ run' = [run EXCEPT ![s] =
                           IF Len(allOrders) = 0 THEN Responded(got)
                           ELSE [got EXCEPT !.pc = "createTempTable"]]
              /\ upstream' = Fetched(reportData)
     \/ /\ run' = [run EXCEPT ![s] = Thrown(@, "fetch")]
        /\ UNCHANGED upstream
  /\ UNCHANGED <<conc, nstarted, temp, orders, order_items, inventory,
                 lastTs, sameMs, atStart, frozen>>

\* createTempTable, first statement: delete({ ignoreNotFound: true })
AmazonDropOld(s) ==
  /\ run[s].kind = "amazon" /\ run[s].pc = "createTempTable"
  /\ \/ /\ temp' = DropTable(tempTableId)
        /\ run' = [run EXCEPT ![s] = [Called(@, "dropOld")
                                        EXCEPT !.pc = "createTable"]]
     \/ /\ run' = [run EXCEPT ![s] = Thrown(@, "dropOld")]
        /\ UNCHANGED temp
  /\ UNCHANGED <<conc, nstarted, orders, order_items, inventory,
                 lastTs, sameMs, atStart, frozen, upstream>>

\* createTempTable, second statement: createTable(tempTableId, { schema })
AmazonCreateTable(s) ==
  /\ run[s].kind = "amazon" /\ run[s].pc = "createTable"
  /\ \/ /\ ~Exists(tempTableId)
        /\ temp' = CreateTable(tempTableId)
        /\ run' = [run EXCEPT ![s] = [Called(@, "create")
                                        EXCEPT !.pc = "insert", !.i = 0]]
     \/ /\ run' = [run EXCEPT ![s] = Thrown(@, "create")]
        /\ UNCHANGED temp
  /\ UNCHANGED <<conc, nstarted, orders, order_items, inventory,
                 lastTs, sameMs, atStart, frozen, upstream>>

\* insertToTempTable: one pass of the batch loop
AmazonInsert(s) ==
  /\ run[s].kind = "amazon" /\ run[s].pc = "insert"
  /\ LET r == run[s]
         batch == SubSeq(r.allOrders, r.i + 1,
                         Min(r.i + batchSize, Len(r.allOrders)))
     IN  \/ /\ Exists(tempTableId)
            /\ temp' = InsertRows(tempTableId, batch)
            /\ LET done == [Called(r, "insert") EXCEPT
                              !.i = r.i + batchSize, !.age = 0]
               IN  run' = [run EXCEPT ![s] =
                            IF r.i + batchSize < Len(r.allOrders)
                            THEN done ELSE Sleeping(done)]
         \/ /\ run' = [run EXCEPT ![s] = Thrown(r, "insert")]
            /\ UNCHANGED temp
  /\ UNCHANGED <<conc, nstarted, orders, order_items, inventory,
                 lastTs, sameMs, atStart, frozen, upstream>>

\* await sleep(90000) returns
AmazonWake(s) ==
  /\ run[s].kind = "amazon" /\ run[s].pc = "sleep"
  /\ run[s].slept >= amazonSleepMs
  /\ run' = [run EXCEPT ![s].pc = "mergeOrders"]
  /\ UNCHANGED <<conc, nstarted, temp, orders, order_items, inventory,
                 lastTs, sameMs, atStart, frozen, upstream>>

\* mergeToMainTables, first statement
AmazonMergeOrders(s) ==
  /\ run[s].kind = "amazon" /\ run[s].pc = "mergeOrders"
  /\ LET r == [run[s] EXCEPT !.read = TableRead("orders", tempTableId)]
     IN  \/ /\ Exists(tempTableId)
            /\ \E S \in AmazonOrderSources(temp[tempTableId]) :
                 /\ ~MergeFails(orders, S, ordersOn)
                 /\ orders' = MergeResult(orders, S, ordersOn,
                                AmazonOrderSet, AmazonOrderStamp(r.no))
            /\ run' = [run EXCEPT ![s] = [Called(r, "mergeOrders")
                                            EXCEPT !.pc = "mergeItems"]]
         \/ /\ run' = [run EXCEPT ![s] = Thrown(r, "mergeOrders")]
            /\ UNCHANGED orders
  /\ UNCHANGED <<conc, nstarted, temp, order_items, inventory,
                 lastTs, sameMs, atStart, frozen, upstream>>

\* mergeToMainTables, second statement
AmazonMergeItems(s) ==
  /\ run[s].kind = "amazon" /\ run[s].pc = "mergeItems"
  /\ LET r == [run[s] EXCEPT !.read = TableRead("items", tempTableId)]
     IN  \/ /\ Exists(tempTableId)
            /\ LET S == AmazonItemSource(temp[tempTableId])
               IN  /\ ~MergeFails(order_items, S, orderItemsOn)
                   /\ order_items' = MergeResult(order_items, S,
                                        orderItemsOn, AmazonItemSet, NoStamp)
            /\ run' = [run EXCEPT ![s] = [Called(r, "mergeItems")
                                            EXCEPT !.pc = "deleteTempTable"]]
         \/ /\ run' = [run EXCEPT ![s] = Thrown(r, "mergeItems")]
            /\ UNCHANGED order_items
  /\ UNCHANGED <<conc, nstarted, temp, orders, inventory,
                 lastTs, sameMs, atStart, frozen, upstream>>

\* deleteTempTable, then the success answer
AmazonDeleteTempTable(s) ==
  /\ run[s].kind = "amazon" /\ run[s].pc = "deleteTempTable"
  /\ \/ /\ temp' = DropTable(tempTableId)
        /\ run' = [run EXCEPT ![s] = Responded(Called(@, "delete"))]
     \/ /\ run' = [run EXCEPT ![s] = Thrown(@, "delete")]
        /\ UNCHANGED temp
  /\ UNCHANGED <<conc, nstarted, orders, order_items, inventory,
                 lastTs, sameMs, atStart, frozen, upstream>>

Amazon(s) ==
  \/ AmazonStart(s) \/ AmazonFetch(s) \/ AmazonDropOld(s)
  \/ AmazonCreateTable(s) \/ AmazonInsert(s) \/ AmazonWake(s)
  \/ AmazonMergeOrders(s) \/ AmazonMergeItems(s)
  \/ AmazonDeleteTempTable(s)

\* ============================================================ Shopify sync
ShopifyAccountName == "Shopify-1"
tempTableOrders(timestamp) == <<"orders_temp", timestamp>>
tempTableItems(timestamp) == <<"order_items_temp", timestamp>>

ShopifyLineItems(v) ==
  {<<>>, <<[id |-> "7", quantity |-> v,
            fulfillment_status |-> IF v = 1 THEN "null" ELSE "fulfilled"]>>}
ShopifyOrders ==
  {[id |-> "1", customer |-> IF v = 1 THEN "" ELSE "y",
    total_price |-> 100, line_items |-> items] :
      v \in Variants, items \in ShopifyLineItems(1) \cup ShopifyLineItems(2)}

\* `SHOPIFY-${ACCOUNT_NAME}-${order.id}`; an order without id has id ""
ShopifyOrderId(order) ==
  <<"SHOPIFY", ShopifyAccountName,
    IF order.id = "" THEN "undefined" ELSE order.id>>

OrderForBQ(order, now) ==
  [order_id |-> ShopifyOrderId(order),
   channel |-> "Shopify",
   account_name |-> ShopifyAccountName,
   customer_name |-> IF order.customer # "" THEN order.customer ELSE "Guest",
   total_amount |-> order.total_price,
   created_at |-> now,
   updated_at |-> now]

ItemForBQ(order, item, now) ==
  [order_id |-> ShopifyOrderId(order),
   channel |-> "Shopify",
   line_item_id |-> <<item.id>>,
   quantity |-> item.quantity,
   quantity_fulfilled |->
     IF item.fulfillment_status = "fulfilled" THEN item.quantity ELSE 0,
   quantity_unfulfilled |->
     IF item.fulfillment_status = "fulfilled" THEN 0 ELSE item.quantity,
   created_at |-> now]

\* allOrders.forEach(order => order.line_items.forEach(push)): the items
\* of the orders in order, computed by halving the list
RECURSIVE ItemsForBQ(_, _)
ItemsForBQ(allOrders, now) ==
  IF allOrders = <<>> THEN <<>>
  ELSE IF Len(allOrders) = 1
  THEN LET order == allOrders[1]
       IN  [k \in 1..Len(order.line_items) |->
              ItemForBQ(order, order.line_items[k], now)]
  ELSE LET half == Len(allOrders) \div 2
       IN  ItemsForBQ(SubSeq(allOrders, 1, half), now)
           \o ItemsForBQ(SubSeq(allOrders, half + 1, Len(allOrders)), now)

\* UPDATE SET of the two Shopify MERGE statements
ShopifyOrderSet == {"customer_name", "total_amount", "updated_at"}
ShopifyItemSet == {"quantity", "quantity_fulfilled", "quantity_unfulfilled"}

\* Date.now(): not less than the last value, and greater once time passed
DateNow == IF sameMs THEN {lastTs, lastTs + 1} ELSE {lastTs + 1}

ShopifyStart(s) == Start(s, "shopify", 1)

\* The page loop, the conversion and the choice of the temp table names.
ShopifyFetch(s) ==
  /\ run[s].kind = "shopify" /\ run[s].pc = "fetch"
  /\ \/ \E allOrders \in Fetchable(SeqsUpTo(ShopifyOrders, RecsBound)) :
          LET r == run[s]
              got == [r EXCEPT !.allOrders = allOrders]
          IN  /\ upstream' = Fetched(allOrders)
              /\ IF Len(allOrders) = 0
                   THEN /\ run' = [run EXCEPT ![s] = Responded(got)]
                        /\ UNCHANGED <<lastTs, sameMs>>
                   ELSE \E timestamp \in DateNow :
                          /\ run' = [run EXCEPT ![s] =
                               [got EXCEPT
                                  !.ordersForBQ =
                                    [k \in 1..Len(allOrders) |->
                                       OrderForBQ(allOrders[k], r.no)],
                                  !.orderItemsForBQ =
                                    ItemsForBQ(allOrders, r.no),
                                  !.timestamp = timestamp,
                                  !.pc = "createOrdersTable"]]
                          /\ lastTs' = timestamp
                          /\ sameMs' = TRUE
     \/ /\ run' = [run EXCEPT ![s] = Thrown(@, "fetch")]
        /\ UNCHANGED <<lastTs, sameMs, upstream>>
  /\ UNCHANGED <<conc, nstarted, temp, orders, order_items, inventory,
                 atStart, frozen>>

ShopifyCreateOrdersTable(s) ==
  /\ run[s].kind = "shopify" /\ run[s].pc = "createOrdersTable"
  /\ LET name == tempTableOrders(run[s].timestamp)
     IN  \/ /\ ~Exists(name)
            /\ temp' = CreateTable(name)
            /\ run' = [run EXCEPT ![s] = [Called(@, "create") EXCEPT
                                            !.pc = "insertOrders", !.i = 0]]
         \/ /\ run' = [run EXCEPT ![s] = Thrown(@, "create")]
            /\ UNCHANGED temp
  /\ UNCHANGED <<conc, nstarted, orders, order_items, inventory,
                 lastTs, sameMs, atStart, frozen, upstream>>

\* one pass of the first chunk loop; ordersForBQ is never empty here
ShopifyInsertOrders(s) ==
  /\ run[s].kind = "shopify" /\ run[s].pc = "insertOrders"
  /\ LET r == run[s]
         name == tempTableOrders(r.timestamp)
         chunk == SubSeq(r.ordersForBQ, r.i + 1,
                         Min(r.i + batchSize, Len(r.ordersForBQ)))
     IN  \/ /\ Exists(name)
            /\ temp' = InsertRows(name, chunk)
            /\ run' = [run EXCEPT ![s] =
                         [Called(r, "insert") EXCEPT
                            !.i = r.i + batchSize,
                            !.age = 0,
                            !.pc = IF r.i + batchSize < Len(r.ordersForBQ)
                                   THEN "insertOrders"
                                   ELSE "createItemsTable"]]
         \/ /\ run' = [run EXCEPT ![s] = Thrown(r, "insert")]
            /\ UNCHANGED temp
  /\ UNCHANGED <<conc, nstarted, orders, order_items, inventory,
                 lastTs, sameMs, atStart, frozen, upstream>>

\* the second createTable; with no line items the chunk loop is skipped
ShopifyCreateItemsTable(s) ==
  /\ run[s].kind = "shopify" /\ run[s].pc = "createItemsTable"
  /\ LET r == run[s]
         name == tempTableItems(r.timestamp)
     IN  \/ /\ ~Exists(name)
            /\ temp' = CreateTable(name)
            /\ LET done == [Called(r, "create") EXCEPT
                              !.i = 0, !.pc = "insertItems"]
               IN  run' = [run EXCEPT ![s] =
                            IF Len(r.orderItemsForBQ) > 0
                            THEN done ELSE Sleeping(done)]
         \/ /\ run' = [run EXCEPT ![s] = Thrown(r, "create")]
            /\ UNCHANGED temp
  /\ UNCHANGED <<conc, nstarted, orders, order_items, inventory,
                 lastTs, sameMs, atStart, frozen, upstream>>

ShopifyInsertItems(s) ==
  /\ run[s].kind = "shopify" /\ run[s].pc = "insertItems"
  /\ LET r == run[s]
         name == tempTableItems(r.timestamp)
         chunk == SubSeq(r.orderItemsForBQ, r.i + 1,
                         Min(r.i + batchSize, Len(r.orderItemsForBQ)))
     IN  \/ /\ Exists(name)
            /\ temp' = InsertRows(name, chunk)
            /\ LET done == [Called(r, "insert") EXCEPT
                              !.i = r.i + batchSize, !.age = 0]
               IN  run' = [run EXCEPT ![s] =
                            IF r.i + batchSize < Len(r.orderItemsForBQ)
                            THEN done ELSE Sleeping(done)]
         \/ /\ run' = [run EXCEPT ![s] = Thrown(r, "insert")]
            /\ UNCHANGED temp
  /\ UNCHANGED <<conc, nstarted, orders, order_items, inventory,
                 lastTs, sameMs, atStart, frozen, upstream>>

ShopifyWake(s) ==
  /\ run[s].kind = "shopify" /\ run[s].pc = "sleep"
  /\ run[s].slept >= shopifySleepMs
  /\ run' = [run EXCEPT ![s].pc = "mergeOrders"]
  /\ UNCHANGED <<conc, nstarted, temp, orders, order_items, inventory,
                 lastTs, sameMs, atStart, frozen, upstream>>

ShopifyMergeOrders(s) ==
  /\ run[s].kind = "shopify" /\ run[s].pc = "mergeOrders"
  /\ LET name == tempTableOrders(run[s].timestamp)
         r == [run[s] EXCEPT !.read = TableRead("orders", name)]
     IN  \/ /\ Exists(name)
            /\ ~MergeFails(orders, temp[name], ordersOn)
            /\ orders' = MergeResult(orders, temp[name], ordersOn,
                                     ShopifyOrderSet, NoStamp)
            /\ run' = [run EXCEPT ![s] = [Called(r, "mergeOrders")
                                            EXCEPT !.pc = "mergeItems"]]
         \/ /\ run' = [run EXCEPT ![s] = Thrown(r, "mergeOrders")]
            /\ UNCHANGED orders
  /\ UNCHANGED <<conc, nstarted, temp, order_items, inventory,
                 lastTs, sameMs, atStart, frozen, upstream>>

ShopifyMergeItems(s) ==
  /\ run[s].kind = "shopify" /\ run[s].pc = "mergeItems"
  /\ LET name == tempTableItems(run[s].timestamp)
         r == [run[s] EXCEPT !.read = TableRead("items", name)]
     IN  \/ /\ Exists(name)
            /\ ~MergeFails(order_items, temp[name], orderItemsOn)
            /\ order_items' = MergeResult(order_items, temp[name],
                                          orderItemsOn, ShopifyItemSet, NoStamp)
            /\ run' = [run EXCEPT ![s] = [Called(r, "mergeItems")
                                            EXCEPT !.pc = "deleteOrdersTable"]]
         \/ /\ run' = [run EXCEPT ![s] = Thrown(r, "mergeItems")]
            /\ UNCHANGED order_items
  /\ UNCHANGED <<conc, nstarted, temp, orders, inventory,
                 lastTs, sameMs, atStart, frozen, upstream>>

\* table(tempTableOrders).delete(): a missing table is an error here
ShopifyDeleteOrdersTable(s) ==
  /\ run[s].kind = "shopify" /\ run[s].pc = "deleteOrdersTable"
  /\ LET name == tempTableOrders(run[s].timestamp)
     IN  \/ /\ Exists(name)
            /\ temp' = DropTable(name)
            /\ run' = [run EXCEPT ![s] = [Called(@, "delete") EXCEPT
                                            !.pc = "deleteItemsTable"]]
         \/ /\ run' = [run EXCEPT ![s] = Thrown(@, "delete")]
            /\ UNCHANGED temp
  /\ UNCHANGED <<conc, nstarted, orders, order_items, inventory,
                 lastTs, sameMs, atStart, frozen, upstream>>

\* table(tempTableItems).delete(), then the success answer
ShopifyDeleteItemsTable(s) ==
  /\ run[s].kind = "shopify" /\ run[s].pc = "deleteItemsTable"
  /\ LET name == tempTableItems(run[s].timestamp)
     IN  \/ /\ Exists(name)
            /\ temp' = DropTable(name)
            /\ run' = [run EXCEPT ![s] = Responded(Called(@, "delete"))]
         \/ /\ run' = [run EXCEPT ![s] = Thrown(@, "delete")]
            /\ UNCHANGED temp
  /\ UNCHANGED <<conc, nstarted, orders, order_items, inventory,
                 lastTs, sameMs, atStart, frozen, upstream>>

Shopify(s) ==
  \/ ShopifyStart(s) \/ ShopifyFetch(s) \/ ShopifyCreateOrdersTable(s)
  \/ ShopifyInsertOrders(s) \/ ShopifyCreateItemsTable(s)
  \/ ShopifyInsertItems(s) \/ ShopifyWake(s) \/ ShopifyMergeOrders(s)
  \/ ShopifyMergeItems(s) \/ ShopifyDeleteOrdersTable(s)
  \/ ShopifyDeleteItemsTable(s)

\* =================================================== Logisp inventory sync
LogispLocation == "LOGISP"      \* the location every row carries
LogispTempTable(timestamp) == <<"inventory_temp_logisp", timestamp>>

\* Items the warehouse API can return: SKUs A and B are mapped to the same
\* master SKU (A as a case product), C has no mapping, "" is a missing SKU.
LogispItems ==
  {[sku |-> k, quantity |-> 5] : k \in {"A", "B", "C", ""}}
  \cup {[sku |-> "A", quantity |-> 1]}

ProductMasters ==
  {[k \in {"A", "B"} |->
     IF k = "A"
     THEN [master_sku |-> "M", is_case_product |-> TRUE, units_per_case |-> 12]
     ELSE [master_sku |-> "M", is_case_product |-> FALSE, units_per_case |-> 1]]}

InventoryRow(sku, quantity, converted, item, now) ==
  [sku |-> sku, location |-> LogispLocation, location_type |-> "External",
   available_quantity |-> quantity, reserved_quantity |-> 0,
   inbound_quantity |-> 0, total_quantity |-> quantity,
   last_updated |-> now, sync_status |-> "success",
   is_case_converted |-> converted,
   original_sku |-> item.sku, original_quantity |-> item.quantity]

\* the rows one item contributes: none without a SKU, else exactly one
ConvertedItem(item, productMaster, now) ==
  IF item.sku = "" THEN <<>>
  ELSE IF item.sku \notin DOMAIN productMaster
  THEN <<InventoryRow(item.sku, item.quantity, FALSE, item, now)>>
  ELSE LET product == productMaster[item.sku]
       IN  IF product.is_case_product /\ product.units_per_case > 1
           THEN <<InventoryRow(product.master_sku,
                               item.quantity * product.units_per_case,
                               TRUE, item, now)>>
           ELSE <<InventoryRow(product.master_sku, item.quantity,
                               FALSE, item, now)>>

RECURSIVE convertInventoryData(_, _, _)
convertInventoryData(inventoryData, productMaster, now) ==
  IF inventoryData = <<>> THEN <<>>
  ELSE ConvertedItem(Head(inventoryData), productMaster, now)
       \o convertInventoryData(Tail(inventoryData), productMaster, now)

\* the columns of the staging schema
StagedInventoryRow(row) ==
  [sku |-> row.sku, location |-> row.location,
   location_type |-> row.location_type,
   available_quantity |-> row.available_quantity,
   reserved_quantity |-> row.reserved_quantity,
   inbound_quantity |-> row.inbound_quantity,
   total_quantity |-> row.total_quantity,
   last_updated |-> row.last_updated,
   sync_status |-> row.sync_status]

\* UPDATE SET of the inventory MERGE: location_type is not set
InventorySet == {"available_quantity", "reserved_quantity",
                 "inbound_quantity", "total_quantity", "last_updated",
                 "sync_status"}

LogispStart(s) == Start(s, "logisp", 1)

\* fetchLogispInventory, fetchProductMaster, convertInventoryData and the
\* head of saveInventoryToBigQuery up to the choice of the temp table name.
LogispFetch(s) ==
  /\ run[s].kind = "logisp" /\ run[s].pc = "fetch"
  /\ \/ \E source \in Fetchable(SeqsUpTo(LogispItems, RecsBound)
                                  \X ProductMasters) :
          LET r == run[s]
              inventoryRows == convertInventoryData(source[1], source[2], r.no)
              got == [r EXCEPT !.inventoryData = source[1],
                               !.productMaster = source[2],
                               !.inventoryRows = inventoryRows]
          IN  /\ upstream' = Fetched(source)
              /\ IF Len(inventoryRows) = 0
                   THEN /\ run' = [run EXCEPT ![s] = Responded(got)]
                        /\ UNCHANGED <<lastTs, sameMs>>
                   ELSE \E timestamp \in DateNow :
                          /\ run' = [run EXCEPT ![s] =
                               [got EXCEPT !.timestamp = timestamp,
                                           !.pc = "createTable"]]
                          /\ lastTs' = timestamp
                          /\ sameMs' = TRUE
     \/ /\ run' = [run EXCEPT ![s] = Thrown(@, "fetch")]
        /\ UNCHANGED <<lastTs, sameMs, upstream>>
  /\ UNCHANGED <<conc, nstarted, temp, orders, order_items, inventory,
                 atStart, frozen>>

LogispCreateTable(s) ==
  /\ run[s].kind = "logisp" /\ run[s].pc = "createTable"
  /\ LET name == LogispTempTable(run[s].timestamp)
     IN  \/ /\ ~Exists(name)
            /\ temp' = CreateTable(name)
            /\ run' = [run EXCEPT ![s] = [Called(@, "create") EXCEPT
                                            !.pc = "insert", !.i = 0]]
         \/ /\ run' = [run EXCEPT ![s] = Thrown(@, "create")]
            /\ UNCHANGED temp
  /\ UNCHANGED <<conc, nstarted, orders, order_items, inventory,
                 lastTs, sameMs, atStart, frozen, upstream>>

\* one pass of the batch loop of saveInventoryToBigQuery
LogispInsert(s) ==
  /\ run[s].kind = "logisp" /\ run[s].pc = "insert"
  /\ LET r == run[s]
         name == LogispTempTable(r.timestamp)
         slice == SubSeq(r.inventoryRows, r.i + 1,
                         Min(r.i + batchSize, Len(r.inventoryRows)))
         batch == [k \in 1..Len(slice) |-> StagedInventoryRow(slice[k])]
     IN  \/ /\ Exists(name)
            /\ temp' = InsertRows(name, batch)
            /\ LET done == [Called(r, "insert") EXCEPT
                              !.i = r.i + batchSize, !.age = 0]
               IN  run' = [run EXCEPT ![s] =
                            IF r.i + batchSize < Len(r.inventoryRows)
                            THEN done ELSE Sleeping(done)]
         \/ /\ run' = [run EXCEPT ![s] = Thrown(r, "insert")]
            /\ UNCHANGED temp
  /\ UNCHANGED <<conc, nstarted, orders, order_items, inventory,
                 lastTs, sameMs, atStart, frozen, upstream>>

LogispWake(s) ==
  /\ run[s].kind = "logisp" /\ run[s].pc = "sleep"
  /\ run[s].slept >= logispSleepMs
  /\ run' = [run EXCEPT ![s].pc = "merge"]
  /\ UNCHANGED <<conc, nstarted, temp, orders, order_items, inventory,
                 lastTs, sameMs, atStart, frozen, upstream>>

LogispMerge(s) ==
  /\ run[s].kind = "logisp" /\ run[s].pc = "merge"
  /\ LET name == LogispTempTable(run[s].timestamp)
         r == [run[s] EXCEPT !.read = TableRead("inventory", name)]
     IN  \/ /\ Exists(name)
            /\ ~MergeFails(inventory, temp[name], inventoryOn)
            /\ inventory' = MergeResult(inventory, temp[name], inventoryOn,
                                        InventorySet, NoStamp)
            /\ run' = [run EXCEPT ![s] = [Called(r, "merge")
                                            EXCEPT !.pc = "deleteTable"]]
         \/ /\ run' = [run EXCEPT ![s] = Thrown(r, "merge")]
            /\ UNCHANGED inventory
  /\ UNCHANGED <<conc, nstarted, temp, orders, order_items,
                 lastTs, sameMs, atStart, frozen, upstream>>

\* delete({ ignoreNotFound: true }), the return, and the success answer
LogispDeleteTable(s) ==
  /\ run[s].kind = "logisp" /\ run[s].pc = "deleteTable"
  /\ LET name == LogispTempTable(run[s].timestamp)
     IN  \/ /\ temp' = DropTable(name)
            /\ run' = [run EXCEPT ![s] = Responded(Called(@, "delete"))]
         \/ /\ run' = [run EXCEPT ![s] = Thrown(@, "delete")]
            /\ UNCHANGED temp
  /\ UNCHANGED <<conc, nstarted, orders, order_items, inventory,
                 lastTs, sameMs, atStart, frozen, upstream>>

Logisp(s) ==
  \/ LogispStart(s) \/ LogispFetch(s) \/ LogispCreateTable(s)
  \/ LogispInsert(s) \/ LogispWake(s) \/ LogispMerge(s)
  \/ LogispDeleteTable(s)

Next ==
  \/ Tick
  \/ \E s \in Slots : Amazon(s)
  \/ \E s \in Slots : Shopify(s)
  \/ \E s \in Slots : Logisp(s)

Spec == Init /\ [][Next]_vars

\* The same function invoked again and again on unchanged upstream data.
InitTwice ==
  /\ conc = 1
  /\ nstarted = 0
  /\ run = [s \in Slots |-> IdleRun]
  /\ temp = <<>>
  /\ orders = EmptyBag
  /\ order_items = EmptyBag
  /\ inventory = EmptyBag
  /\ lastTs = 0
  /\ sameMs = FALSE
  /\ atStart = [orders |-> EmptyBag, order_items |-> EmptyBag,
                inventory |-> EmptyBag]
  /\ frozen = TRUE
  /\ upstream = NoUpstream

SpecTwice == InitTwice /\ [][Next]_vars

\* Invocations may overlap, as nothing in the functions prevents it.
InitConc ==
  /\ conc = 2
  /\ nstarted = 0
  /\ run = [s \in Slots |-> IdleRun]
  /\ temp = <<>>
  /\ orders = EmptyBag
  /\ order_items = EmptyBag
  /\ inventory = EmptyBag
  /\ lastTs = 0
  /\ sameMs = FALSE
  /\ atStart = [orders |-> EmptyBag, order_items |-> EmptyBag,
                inventory |-> EmptyBag]
  /\ frozen = FALSE
  /\ upstream = NoUpstream

SpecConc == InitConc /\ [][Next]_vars

\* ============================================ Shopify sync, page by page
\* The page loop of syncShopifyOrders followed request by request.  The
\* server is a table of pages; a request without page_info is answered with
\* page 1 and a request with page_info = k with page k.
MaxServed == 2     \* pages the server holds

NoToken == 0

\* the Link header of a response: none, one without rel="next", one whose
\* rel="next" part the regular expression does not match (page_info 0),
\* or one that gives the page_info of another page
Link(rel, page_info) == [rel |-> rel, page_info |-> page_info]

PagedOrder(n) ==
  [id |-> ToString(n), customer |-> "y", total_price |-> 100,
   line_items |-> <<[id |-> "7", quantity |-> 1,
                     fulfillment_status |-> "null"]>>]

\* what page k can hold: nothing, an order, an order without id, an order
\* with a line item without id
PageOrders(k) ==
  {<<>>, <<PagedOrder(k)>>,
   <<[PagedOrder(k) EXCEPT !.id = ""]>>,
   <<[PagedOrder(k) EXCEPT !.line_items =
        <<[id |-> "", quantity |-> 1, fulfillment_status |-> "null"]>>]>>}

PageLinks(k) ==
  {Link("none", NoToken), Link("next", NoToken),
   Link("next", (k % MaxServed) + 1)}

\* two pages of 250 and 40 orders, the second without a Link header
TwoPages ==
  <<[orders |-> [n \in 1..250 |-> PagedOrder(n)], link |-> Link("next", 2)],
    [orders |-> [n \in 1..40 |-> PagedOrder(250 + n)],
     link |-> Link("none", NoToken)]>>

ServerPages ==
  {pages \in [1..MaxServed -> UNION {[orders : PageOrders(k),
                                       link : PageLinks(k)] :
                                        k \in 1..MaxServed}] :
     \A k \in 1..MaxServed :
       pages[k].orders \in PageOrders(k) /\ pages[k].link \in PageLinks(k)}
  \cup {TwoPages}

\* the page the server returns for a request
ServedPage(pages, page_info) ==
  pages[IF page_info = NoToken THEN 1 ELSE page_info]

\* the budget of a loop that tests pageCount <= maxPages
maxPagesAndOne(isFullSync) == IF isFullSync THEN 201 ELSE 21

maxPages(isFullSync) == IF isFullSync THEN 200 ELSE 20

shopifyPageDelayMs == 500

\* req.query.days_back: absent, "0" or "7"
DaysBackQuery == {<<>>, <<0>>, <<7>>}

defaultDaysBack == 30

\* parseInt(req.query.days_back) || 30: NaN and 0 give the default
ShopifyDaysBack(days_back) ==
  IF days_back = <<>> \/ days_back[1] = 0 THEN defaultDaysBack
  ELSE days_back[1]

\* the head of the handler: parameters, credentials, loop variables
ShopifyBegin(s) ==
  /\ run[s].kind = "shopify" /\ run[s].pc = "fetch"
  /\ \/ \E isFullSync \in BOOLEAN, days_back \in DaysBackQuery :
          run' = [run EXCEPT ![s] =
            [@ EXCEPT !.pc = "page",
                      !.fetch = [phase |-> "paging",
                                 isFullSync |-> isFullSync,
                                 days_back |-> days_back,
                                 daysBack |-> ShopifyDaysBack(days_back),
                                 pageInfo |-> NoToken,
                                 pageCount |-> 0,
                                 requests |-> <<>>]]]
     \/ run' = [run EXCEPT ![s] = Thrown(@, "config")]
  /\ UNCHANGED <<conc, nstarted, temp, orders, order_items, inventory,
                 lastTs, sameMs, atStart, frozen, upstream>>

\* a loop that never follows the Link header
nextLinkMatchNone(link) == NoToken

\* whether the Link header lets the loop go on, and with which page_info
nextLinkMatch(link) ==
  IF link.rel = "next" /\ link.page_info # NoToken
  THEN link.page_info ELSE NoToken

\* one pass of the page loop: the request, the response, the Link header
ShopifyPage(s) ==
  /\ run[s].kind = "shopify" /\ run[s].pc = "page"
  /\ LET r == run[s]
         f == r.fetch
         request(status) ==
           [page_info |-> f.pageInfo, status |-> status,
            created_at_min |-> f.daysBack,
            after |-> IF f.pageCount = 0 THEN 0 ELSE shopifyPageDelayMs]
         asked(status) ==
           [f EXCEPT !.pageCount = @ + 1,
                     !.requests = Append(@, request(status))]
         page == ServedPage(upstream.source, f.pageInfo)
         next == nextLinkMatch(page.link)
     IN  \/ LET got == [r EXCEPT !.allOrders = @ \o page.orders]
            IN  run' = [run EXCEPT ![s] =
                  IF next # NoToken /\ f.pageCount + 1 < maxPages(f.isFullSync)
                  THEN [got EXCEPT !.fetch =
                          [asked(200) EXCEPT !.pageInfo = next]]
                  ELSE [got EXCEPT !.pc = "convert", !.fetch =
                          [asked(200) EXCEPT
                             !.phase = "paged",
                             !.pageInfo = IF next # NoToken THEN next ELSE @]]]
         \/ \E status \in {429, 500} :
              run' = [run EXCEPT ![s] =
                [Thrown(r, "fetch") EXCEPT !.fetch = asked(status)]]
  /\ UNCHANGED <<conc, nstarted, temp, orders, order_items, inventory,
                 lastTs, sameMs, atStart, frozen, upstream>>

\* after the loop: the zero-orders answer, or the conversion of the orders
\* and their line items and the choice of the temp table names
ShopifyConvert(s) ==
  /\ run[s].kind = "shopify" /\ run[s].pc = "convert"
  /\ LET r == run[s]
         allOrders == r.allOrders
     IN  IF Len(allOrders) = 0
         THEN /\ run' = [run EXCEPT ![s] = Responded(r)]
              /\ UNCHANGED <<lastTs, sameMs>>
         ELSE IF \E k \in 1..Len(allOrders) :
                   \E j \in 1..Len(allOrders[k].line_items) :
                      allOrders[k].line_items[j].id = ""
         THEN /\ run' = [run EXCEPT ![s] = Thrown(r, "convert")]
              /\ UNCHANGED <<lastTs, sameMs>>
         ELSE \E timestamp \in DateNow :
                /\ run' = [run EXCEPT ![s] =
                     [r EXCEPT
                        !.ordersForBQ =
                          [k \in 1..Len(allOrders) |->
                             OrderForBQ(allOrders[k], r.no)],
                        !.orderItemsForBQ = ItemsForBQ(allOrders, r.no),
                        !.timestamp = timestamp,
                        !.pc = "createOrdersTable"]]
                /\ lastTs' = timestamp
                /\ sameMs' = TRUE
  /\ UNCHANGED <<conc, nstarted, temp, orders, order_items, inventory,
                 atStart, frozen, upstream>>

ShopifyPaged(s) ==
  \/ ShopifyStart(s) \/ ShopifyBegin(s) \/ ShopifyPage(s)
  \/ ShopifyConvert(s)
  \/ ShopifyCreateOrdersTable(s) \/ ShopifyInsertOrders(s)
  \/ ShopifyCreateItemsTable(s) \/ ShopifyInsertItems(s)
  \/ ShopifyWake(s)
  \/ ShopifyMergeOrders(s) \/ ShopifyMergeItems(s)
  \/ ShopifyDeleteOrdersTable(s) \/ ShopifyDeleteItemsTable(s)

NextPages ==
  \/ Tick
  \/ \E s \in Slots : ShopifyPaged(s)

\* One invocation is followed; the earlier ones found no orders and left
\* nothing behind.
InitPages ==
  /\ conc = 1
  /\ nstarted = MaxRuns - 1
  /\ run = [s \in Slots |-> IdleRun]
  /\ temp = <<>>
  /\ orders = EmptyBag
  /\ order_items = EmptyBag
  /\ inventory = EmptyBag
  /\ lastTs = 0
  /\ sameMs = FALSE
  /\ atStart = [orders |-> EmptyBag, order_items |-> EmptyBag,
                inventory |-> EmptyBag]
  /\ frozen = TRUE
  /\ \E pages \in ServerPages :
       upstream = [kind |-> "shopify", acct |-> 1, fetched |-> FALSE,
                   source |-> pages]

SpecPages == InitPages /\ [][NextPages]_vars

\* ======================================= Amazon sync, report by report
\* The window loop of syncAmazonOrdersReports followed call by call.  Dates
\* are counted in tenths of a second from the moment of the invocation,
\* waiting times in milliseconds.
MaxDaysBack == 61  \* the largest days_back of a request

second == 10
minute == 60 * second
day == 24 * 60 * minute

windowDays == 30
pollIntervalHalved == 10000 \div 2
pollInterval == 10000
maxWaitTime == 600000
rateLimitSleepMs == 60000
maxRetries == 3

\* parseInt(req.query.days_back) || 30, over the values a request can carry
DaysBack == {d \in {-1, 0, 1, 30, 31, 60, MaxDaysBack} : d <= MaxDaysBack}

\* callSpApi: the status it ends with and the 429 answers it retried; a 429
\* is retried after 60 seconds while retryCount < 3
CallSpApi ==
  {o \in [retryCount : 0..maxRetries, statusCode : {200, 429, 500}] :
     o.statusCode = 429 => o.retryCount = maxRetries}

SpApiMs(o) == o.retryCount * rateLimitSleepMs

processingStatuses == {"IN_PROGRESS", "DONE", "FATAL", "CANCELLED"}
doneStatuses == {"DONE"}
failedStatusesOne == {"FATAL"}
failedStatuses == {"FATAL", "CANCELLED"}

NoDocument == <<>>
reportDocumentId(reportId) == <<"document", reportId>>

\* what the report of the k-th window can hold
WindowReports(k) ==
  {<<>>, <<ReportRow(ToString(k), "i1", 1)>>,
   <<ReportRow(ToString(k), "i1", 1), ReportRow("", "", 1)>>}

\* the end of the report loop without the test for zero orders
AmazonFetchedUnchecked(r) ==
  [r EXCEPT !.fetch.phase = "fetched", !.pc = "createTempTable"]

\* the handler leaves the window loop
AmazonFetched(r) ==
  LET got == [r EXCEPT !.fetch.phase = "fetched"]
  IN  IF Len(r.allOrders) = 0 THEN Responded(got)
      ELSE [got EXCEPT !.pc = "createTempTable"]

\* the head of the handler: parameters, getAccountConfig, the date range
AmazonBegin(s) ==
  /\ run[s].kind = "amazon" /\ run[s].pc = "fetch"
  /\ \/ \E days_back \in DaysBack :
          LET daysBack == IF days_back = 0 THEN 30 ELSE days_back
              endDate == 0 - 2 * minute
              startDate == 0 - daysBack * day
              r == [run[s] EXCEPT !.fetch =
                     [phase |-> "windows", daysBack |-> daysBack,
                      startDate |-> startDate, endDate |-> endDate,
                      currentStart |-> startDate, currentEnd |-> startDate,
                      windows |-> <<>>, reportId |-> 0,
                      documentId |-> NoDocument, elapsed |-> 0,
                      polled |-> FALSE, pollAt |-> 0,
                      status |-> "none"]]
          IN  run' = [run EXCEPT ![s] =
                        IF startDate < endDate
                        THEN [r EXCEPT !.pc = "token"]
                        ELSE AmazonFetched(r)]
     \/ run' = [run EXCEPT ![s] = Thrown(@, "config")]
  /\ UNCHANGED <<conc, nstarted, temp, orders, order_items, inventory,
                 lastTs, sameMs, atStart, frozen, upstream>>

\* the head of a pass of the window loop: currentEnd, then getAccessToken
AmazonToken(s) ==
  /\ run[s].kind = "amazon" /\ run[s].pc = "token"
  /\ LET f == run[s].fetch
         plus30 == f.currentStart + windowDays * day
         currentEnd == IF plus30 > f.endDate THEN f.endDate ELSE plus30
         r == [run[s] EXCEPT
                 !.fetch.currentEnd = currentEnd,
                 !.fetch.windows =
                   Append(@, [start |-> f.currentStart, end |-> currentEnd])]
     IN  \/ run' = [run EXCEPT ![s] = [r EXCEPT !.pc = "createReport"]]
         \/ run' = [run EXCEPT ![s] = Thrown(r, "token")]
  /\ UNCHANGED <<conc, nstarted, temp, orders, order_items, inventory,
                 lastTs, sameMs, atStart, frozen, upstream>>

\* createReport, and the first lines of waitForReport
AmazonCreateReport(s) ==
  /\ run[s].kind = "amazon" /\ run[s].pc = "createReport"
  /\ \E o \in CallSpApi :
       run' = [run EXCEPT ![s] =
         IF o.statusCode = 200
         THEN [@ EXCEPT !.pc = "poll",
                        !.fetch.reportId = Len(run[s].fetch.windows),
                        !.fetch.documentId = NoDocument,
                        !.fetch.elapsed = 0, !.fetch.polled = FALSE,
                        !.fetch.pollAt = 0,
                        !.fetch.status = "none"]
         ELSE Thrown(@, "createReport")]
  /\ UNCHANGED <<conc, nstarted, temp, orders, order_items, inventory,
                 lastTs, sameMs, atStart, frozen, upstream>>

\* waitForReport: the loop test and one pass of the loop, its sleep included
AmazonPoll(s) ==
  /\ run[s].kind = "amazon" /\ run[s].pc = "poll"
  /\ LET r == run[s]
         f == r.fetch
     IN  IF ~(f.elapsed < maxWaitTime)
         THEN run' = [run EXCEPT ![s] =
                [Thrown(r, "timeout") EXCEPT !.fetch.phase = "timeout"]]
         ELSE \E o \in CallSpApi :
                LET asked == [f EXCEPT
                                !.polled = TRUE, !.pollAt = f.elapsed,
                                !.elapsed = @ + SpApiMs(o)]
                IN  IF o.statusCode # 200
                    THEN run' = [run EXCEPT ![s] =
                           [Thrown(r, "poll") EXCEPT !.fetch = asked]]
                    ELSE \E status \in processingStatuses :
                      LET seen == [asked EXCEPT !.status = status]
                      IN  run' = [run EXCEPT ![s] =
                            IF status \in doneStatuses
                            THEN [r EXCEPT
                                    !.pc = "download",
                                    !.fetch = [seen EXCEPT !.documentId =
                                       reportDocumentId(f.reportId)]]
                            ELSE IF status \in failedStatuses
                            THEN [Thrown(r, "waitForReport")
                                    EXCEPT !.fetch = seen]
                            ELSE [r EXCEPT !.fetch =
                                    [seen EXCEPT
                                       !.elapsed = @ + pollInterval]]]
  /\ UNCHANGED <<conc, nstarted, temp, orders, order_items, inventory,
                 lastTs, sameMs, atStart, frozen, upstream>>

\* downloadReport, parseReportData and the tail of the pass
AmazonDownload(s) ==
  /\ run[s].kind = "amazon" /\ run[s].pc = "download"
  /\ LET r == run[s]
         f == r.fetch
     IN  \/ \E o \in CallSpApi :
              /\ o.statusCode # 200
              /\ run' = [run EXCEPT ![s] = Thrown(r, "download")]
         \/ \E reportData \in WindowReports(Len(f.windows)) :
              LET currentStart == f.currentEnd + 1 * second
                  got == [r EXCEPT
                            !.reportData = reportData,
                            !.allOrders =
                              @ \o parseReportData(reportData, r.acct, r.no),
                            !.fetch.currentStart = currentStart]
              IN  run' = [run EXCEPT ![s] =
                            IF currentStart < f.endDate
                            THEN [got EXCEPT !.pc = "token"]
                            ELSE AmazonFetched(got)]
  /\ UNCHANGED <<conc, nstarted, temp, orders, order_items, inventory,
                 lastTs, sameMs, atStart, frozen, upstream>>

AmazonReports(s) ==
  \/ AmazonStart(s) \/ AmazonBegin(s) \/ AmazonToken(s)
  \/ AmazonCreateReport(s) \/ AmazonPoll(s) \/ AmazonDownload(s)
  \/ AmazonDropOld(s) \/ AmazonCreateTable(s) \/ AmazonInsert(s)
  \/ AmazonWake(s) \/ AmazonMergeOrders(s) \/ AmazonMergeItems(s)
  \/ AmazonDeleteTempTable(s)

NextReports ==
  \/ Tick
  \/ \E s \in Slots : AmazonReports(s)

\* One invocation for account 1 is followed; the earlier ones found no
\* orders and left nothing behind.
InitReports ==
  /\ conc = 1
  /\ nstarted = MaxRuns - 1
  /\ run = [s \in Slots |-> IdleRun]
  /\ temp = <<>>
  /\ orders = EmptyBag
  /\ order_items = EmptyBag
  /\ inventory = EmptyBag
  /\ lastTs = 0
  /\ sameMs = FALSE
  /\ atStart = [orders |-> EmptyBag, order_items |-> EmptyBag,
                inventory |-> EmptyBag]
  /\ frozen = TRUE
  /\ upstream = [kind |-> "amazon", acct |-> 1, fetched |-> FALSE,
                 source |-> <<>>]

SpecReports == InitReports /\ [][NextReports]_vars

\* Every invocation that can take a step of its handler eventually takes
\* one: the awaited calls return and the event loop resumes the handler.
SpecReportsFair ==
  SpecReports /\ \A s \in Slots : WF_vars(AmazonReports(s))

\* ============================================ convertInventoryData alone
\* The conversion of the warehouse items as a function of its arguments, in
\* the two files that define it.  An item carries its SKU and its quantity;
\* SKU A is mapped to a case product of 12 units, D to a case product of 1
\* unit, B to a product that is no case product, C is not mapped, "" is a
\* missing SKU.
RawItems ==
  {[sku |-> k, quantity |-> q] : k \in {"A", "B", "C", "D", ""},
                                 q \in {0, 1, 5}}

CaseMaster ==
  [k \in {"A", "B", "D"} |->
     [master_sku |-> "M",
      is_case_product |-> k \in {"A", "D"},
      units_per_case |-> IF k = "A" THEN 12 ELSE 1]]

\* item.quantity || item.stock || item.available of an item that has only
\* its quantity: the quantity, or undefined (no value) when it is 0
QuantityOrUndefined(item) ==
  IF item.quantity # 0 THEN <<item.quantity>> ELSE <<>>

\* part_001: the rows one item contributes
ConvertedItem_part_001(item, productMaster, now) ==
  IF item.sku = "" THEN <<>>
  ELSE LET isCaseConverted ==
             /\ item.sku \in DOMAIN productMaster
             /\ productMaster[item.sku].is_case_product
             /\ productMaster[item.sku].units_per_case > 1
           finalSku == IF isCaseConverted
                       THEN productMaster[item.sku].master_sku
                       ELSE item.sku
           quantity == IF isCaseConverted
                       THEN item.quantity *
                              productMaster[item.sku].units_per_case
                       ELSE item.quantity
       IN  <<[InventoryRow(finalSku, quantity, isCaseConverted, item, now)
                EXCEPT !.original_quantity = QuantityOrUndefined(item)]>>

RECURSIVE convertInventoryData_part_001(_, _, _)
convertInventoryData_part_001(inventoryData, productMaster, now) ==
  IF inventoryData = <<>> THEN <<>>
  ELSE ConvertedItem_part_001(Head(inventoryData), productMaster, now)
       \o convertInventoryData_part_001(Tail(inventoryData), productMaster,
                                        now)

\* the console.warn calls of convertInventoryData, by their message
skuNotFound == "sku not found"
mappingNotFound == "sku mapping not found"

\* index.js: the warnings one item causes
ItemWarnings(item, productMaster) ==
  IF item.sku = "" THEN <<skuNotFound>>
  ELSE IF item.sku \notin DOMAIN productMaster THEN <<mappingNotFound>>
  ELSE <<>>

\* part_001: the warnings one item causes
ItemWarnings_part_001(item, productMaster) ==
  IF item.sku = "" THEN <<skuNotFound>> ELSE <<>>

RECURSIVE consoleWarn(_, _)
consoleWarn(inventoryData, productMaster) ==
  IF inventoryData = <<>> THEN <<>>
  ELSE ItemWarnings(Head(inventoryData), productMaster)
       \o consoleWarn(Tail(inventoryData), productMaster)

RECURSIVE consoleWarn_part_001(_, _)
consoleWarn_part_001(inventoryData, productMaster) ==
  IF inventoryData = <<>> THEN <<>>
  ELSE ItemWarnings_part_001(Head(inventoryData), productMaster)
       \o consoleWarn_part_001(Tail(inventoryData), productMaster)

Converted(r, file, inventoryRows) ==
  [r EXCEPT !.kind = "logisp", !.pc = "done",
            !.inventoryData = upstream.source[1],
            !.productMaster = upstream.source[2],
            !.inventoryRows = inventoryRows,
            !.fetch =
              [phase |-> "converted", file |-> file,
               warnings |->
                 IF file = "part_001"
                 THEN consoleWarn_part_001(upstream.source[1],
                                           upstream.source[2])
                 ELSE consoleWarn(upstream.source[1], upstream.source[2])]]

\* convertInventoryData of logisp-inventory-sync/index.js is applied
ConvertIndex(s) ==
  /\ run[s].pc = "idle"
  /\ \E now \in DateNow :
       /\ run' = [run EXCEPT ![s] =
            Converted(@, "index.js",
                      convertInventoryData(upstream.source[1],
                                           upstream.source[2], now))]
       /\ lastTs' = now
       /\ sameMs' = TRUE
  /\ UNCHANGED <<conc, nstarted, temp, orders, order_items, inventory,
                 atStart, frozen, upstream>>

\* convertInventoryData of part_001 is applied
ConvertPart001(s) ==
  /\ run[s].pc = "idle"
  /\ \E now \in DateNow :
       /\ run' = [run EXCEPT ![s] =
            Converted(@, "part_001",
                      convertInventoryData_part_001(upstream.source[1],
                                                    upstream.source[2], now))]
       /\ lastTs' = now
       /\ sameMs' = TRUE
  /\ UNCHANGED <<conc, nstarted, temp, orders, order_items, inventory,
                 atStart, frozen, upstream>>

NextConvert == \E s \in Slots : ConvertIndex(s) \/ ConvertPart001(s)

InitConvert ==
  /\ conc = 1
  /\ nstarted = 0
  /\ run = [s \in Slots |-> IdleRun]
  /\ temp = <<>>
  /\ orders = EmptyBag
  /\ order_items = EmptyBag
  /\ inventory = EmptyBag
  /\ lastTs = 0
  /\ sameMs = FALSE
  /\ atStart = [orders |-> EmptyBag, order_items |-> EmptyBag,
                inventory |-> EmptyBag]
  /\ frozen = TRUE
  /\ \E inventoryData \in SeqsUpTo(RawItems, MaxRecs) :
       upstream = [kind |-> "logisp", acct |-> 1, fetched |-> FALSE,
                   source |-> <<inventoryData, CaseMaster>>]

SpecConvert == InitConvert /\ [][NextConvert]_vars

\* ===================================================== stockout alert check
\* checkStockoutAlert: the two queries, the forecast, the insert into the
\* stockout_alert table and the Slack notification.  The table is kept with
\* the other tables that are addressed by name.
MaxLines == 2      \* rows the inventory query returns

stockoutAlertTable == <<"stockout_alert", 0>>

\* master SKUs are named by numbers
MasterSku(n) == ToString(n)

\* SUM(oi.quantity) of a master SKU over the trailing 30 days
SoldTotals == {46, 60}

\* rows of the sales query: one for a master SKU, HAVING SUM(quantity) > 0,
\* ORDER BY daily_avg_sales DESC
SalesRows ==
  [master_sku : {MasterSku(1), MasterSku(2)}, total_sold : SoldTotals]

SalesLists ==
  {sq \in SeqsUpTo(SalesRows, 2) :
     \A j, k \in DOMAIN sq :
       j < k => /\ sq[j].master_sku # sq[k].master_sku
                /\ sq[j].total_sold >= sq[k].total_sold}

\* eleven master SKUs with sales, the one that sells least coming last
ManySales ==
  [n \in 1..11 |->
     [master_sku |-> MasterSku(n),
      total_sold |-> IF n <= 10 THEN 60 ELSE 46]]

\* rows of the inventory query: one for a SKU at a location, WHERE
\* available_quantity > 0 OR inbound_quantity > 0
InventoryLines ==
  {line \in [master_sku : {MasterSku(1), MasterSku(2)},
             available_quantity : {0, 14, 15, 23, 30},
             inbound_quantity : {0, 5}] :
     line.available_quantity > 0 \/ line.inbound_quantity > 0}

\* 14 available for each of the first ten master SKUs, none for the last
ManyLines ==
  [n \in 1..10 |->
     [master_sku |-> MasterSku(n), available_quantity |-> 14,
      inbound_quantity |-> 0]]

RECURSIVE SumOver(_, _, _)
SumOver(lines, sku, column) ==
  IF lines = <<>> THEN 0
  ELSE (IF Head(lines).master_sku = sku THEN Head(lines)[column] ELSE 0)
       + SumOver(Tail(lines), sku, column)

\* step 3: the inventory summed by master SKU
inventoryByMasterSku(inventoryResults) ==
  [sku \in {inventoryResults[k].master_sku : k \in DOMAIN inventoryResults}
     |-> [available |-> SumOver(inventoryResults, sku, "available_quantity"),
          inbound |-> SumOver(inventoryResults, sku, "inbound_quantity")]]

\* Math.floor(available / daily_avg_sales), where daily_avg_sales is the
\* FLOAT64 SUM(quantity) / 30.0 of the sales query.  Both divisions round to
\* the nearest double: 46 / 30.0 is 1.5333333333333334, and 23, 46 and 92
\* divided by it are 14.999999999999998, 29.999999999999996 and
\* 59.99999999999999.  For the other quantities and totals of this model the
\* rounded quotient has the floor of the exact one.
QuotientRoundsBelow == {<<23, 46>>, <<46, 46>>, <<92, 46>>}

daysUntilStockout(available, total_sold) ==
  (30 * available) \div total_sold
    - (IF <<available, total_sold>> \in QuotientRoundsBelow THEN 1 ELSE 0)

\* Math.ceil(daily_avg_sales * 30): 46 / 30.0 * 30 and 60 / 30.0 * 30 are
\* the doubles 46 and 60
CeilMonthlySales(total_sold) == total_sold

\* daily_avg_sales as a fraction, and its toFixed(2) in hundredths
DailyAvgSales(total_sold) == <<total_sold, 30>>
DailyAvgSalesFixed2(total_sold) == <<(total_sold * 100 + 15) \div 30, 100>>

\* step 4 for one row of the sales query: the alert it raises, if any
AlertOf(sale, bySku) ==
  IF sale.master_sku \notin DOMAIN bySku
       \/ bySku[sale.master_sku].available = 0
  THEN <<[master_sku |-> sale.master_sku,
          current_stock |-> 0,
          inbound_stock |-> IF sale.master_sku \in DOMAIN bySku
                            THEN bySku[sale.master_sku].inbound ELSE 0,
          daily_sales_rate |-> DailyAvgSales(sale.total_sold),
          days_until_stockout |-> 0,
          alert_level |-> "CRITICAL",
          suggested_order_qty |-> CeilMonthlySales(sale.total_sold),
          message |-> [text |-> "out of stock", days |-> 0]]>>
  ELSE LET inv == bySku[sale.master_sku]
           days == daysUntilStockout(inv.available, sale.total_sold)
           alertLevel == IF days <= 7 THEN "CRITICAL"
                         ELSE IF days <= 14 THEN "WARNING" ELSE "NORMAL"
       IN  IF alertLevel = "NORMAL" THEN <<>>
           ELSE <<[master_sku |-> sale.master_sku,
                   current_stock |-> inv.available,
                   inbound_stock |-> inv.inbound,
                   daily_sales_rate |-> DailyAvgSalesFixed2(sale.total_sold),
                   days_until_stockout |-> days,
                   alert_level |-> alertLevel,
                   suggested_order_qty |->
                     CeilMonthlySales(sale.total_sold)
                       - inv.available - inv.inbound,
                   message |-> [text |-> "days left", days |-> days]]>>

RECURSIVE Alerts(_, _)
Alerts(salesResults, bySku) ==
  IF salesResults = <<>> THEN <<>>
  ELSE AlertOf(Head(salesResults), bySku) \o Alerts(Tail(salesResults), bySku)

Max(a, b) == IF a > b THEN a ELSE b

\* the record saveAlertsToBigQuery makes of an alert
AlertRecord(alert, now) ==
  [sku |-> alert.master_sku, location |-> "ALL",
   predicted_stockout_date |-> alert.days_until_stockout,
   current_stock |-> alert.current_stock,
   daily_sales_rate |-> alert.daily_sales_rate,
   days_until_stockout |-> alert.days_until_stockout,
   alert_level |-> alert.alert_level,
   suggested_order_qty |-> Max(0, alert.suggested_order_qty),
   calculated_at |-> now]

\* the section sendSlackNotification writes for a CRITICAL alert
AlertBlock(alert) ==
  [master_sku |-> alert.master_sku, message |-> alert.message,
   current_stock |-> alert.current_stock,
   inbound_stock |-> alert.inbound_stock,
   daily_sales_rate |-> alert.daily_sales_rate,
   suggested_order_qty |-> Max(0, alert.suggested_order_qty)]

maxDetailed == 10

\* a summary that counts the CRITICAL alerts before the list is cut
SlackBlocksCountedFirst(alerts) ==
  LET critical == SelectSeq(alerts, LAMBDA a : a.alert_level = "CRITICAL")
      criticalAlerts == SubSeq(critical, 1, Min(maxDetailed, Len(critical)))
      warningCount ==
        Len(SelectSeq(alerts, LAMBDA a : a.alert_level = "WARNING"))
  IN  [critical |-> Len(critical), warning |-> warningCount,
       sections |-> [k \in 1..Len(criticalAlerts) |->
                       AlertBlock(criticalAlerts[k])]]

\* the message of sendSlackNotification: the two counts and the sections
SlackBlocks(alerts) ==
  LET critical == SelectSeq(alerts, LAMBDA a : a.alert_level = "CRITICAL")
      criticalAlerts == SubSeq(critical, 1, Min(maxDetailed, Len(critical)))
      warningCount ==
        Len(SelectSeq(alerts, LAMBDA a : a.alert_level = "WARNING"))
  IN  [critical |-> Len(criticalAlerts), warning |-> warningCount,
       sections |-> [k \in 1..Len(criticalAlerts) |->
                       AlertBlock(criticalAlerts[k])]]

AlertStart(s) == Start(s, "alert", 1)

\* the sales query
AlertSales(s) ==
  /\ run[s].kind = "alert" /\ run[s].pc = "fetch"
  /\ \/ \E salesResults \in SalesLists \cup {ManySales} :
          run' = [run EXCEPT ![s] =
            [@ EXCEPT !.pc = "inventoryQuery",
                      !.fetch = [phase |-> "queried",
                                 salesResults |-> salesResults,
                                 inventoryResults |-> <<>>,
                                 alerts |-> <<>>,
                                 webhookUrl |-> "unread",
                                 post |-> "none",
                                 posted |-> <<>>]]]
     \/ run' = [run EXCEPT ![s] = Thrown(@, "salesQuery")]
  /\ UNCHANGED <<conc, nstarted, temp, orders, order_items, inventory,
                 lastTs, sameMs, atStart, frozen, upstream>>

\* the inventory query and the forecast (steps 2 to 4)
AlertInventory(s) ==
  /\ run[s].kind = "alert" /\ run[s].pc = "inventoryQuery"
  /\ \/ \E inventoryResults \in
            SeqsUpTo(InventoryLines, MaxLines) \cup {ManyLines} :
          LET alerts == Alerts(run[s].fetch.salesResults,
                               inventoryByMasterSku(inventoryResults))
              r == [run[s] EXCEPT
                      !.fetch.phase = "forecast",
                      !.fetch.inventoryResults = inventoryResults,
                      !.fetch.alerts = alerts, !.i = 0]
          IN  run' = [run EXCEPT ![s] =
                IF Len(alerts) > 0 THEN [r EXCEPT !.pc = "save"]
                ELSE Responded(r)]
     \/ run' = [run EXCEPT ![s] = Thrown(@, "inventoryQuery")]
  /\ UNCHANGED <<conc, nstarted, temp, orders, order_items, inventory,
                 lastTs, sameMs, atStart, frozen, upstream>>

\* one pass of the batch loop of saveAlertsToBigQuery
AlertSave(s) ==
  /\ run[s].kind = "alert" /\ run[s].pc = "save"
  /\ LET r == run[s]
         alerts == r.fetch.alerts
     IN  \/ \E now \in DateNow :
              LET records == [k \in 1..Len(alerts) |->
                                AlertRecord(alerts[k], now)]
                  batch == SubSeq(records, r.i + 1,
                                  Min(r.i + batchSize, Len(records)))
                  done == [Called(r, "insert") EXCEPT !.i = r.i + batchSize]
              IN  /\ Exists(stockoutAlertTable)
                  /\ temp' = InsertRows(stockoutAlertTable, batch)
                  /\ run' = [run EXCEPT ![s] =
                       IF r.i + batchSize < Len(records) THEN done
                       ELSE [done EXCEPT !.pc = "notify"]]
                  /\ lastTs' = now
                  /\ sameMs' = TRUE
         \/ /\ run' = [run EXCEPT ![s] = Thrown(r, "insert")]
            /\ UNCHANGED <<temp, lastTs, sameMs>>
  /\ UNCHANGED <<conc, nstarted, orders, order_items, inventory,
                 atStart, frozen, upstream>>

\* sendSlackNotification has returned to the handler, which answers 200
Notified(r, webhookUrl, post) ==
  Responded([r EXCEPT !.fetch.phase = "notified",
                      !.fetch.webhookUrl = webhookUrl,
                      !.fetch.post = post])

\* an axios.post whose error is not caught
AxiosPostUncaught(r, post, blocks) ==
  LET asked == [r EXCEPT !.fetch.posted = <<blocks>>]
  IN  IF post = "failed"
      THEN [Thrown(asked, "post") EXCEPT !.fetch.phase = "notified",
                                         !.fetch.webhookUrl = "set",
                                         !.fetch.post = post]
      ELSE Notified(Called(asked, "post"), "set", post)

\* axios.post inside its try block: sent, or failed and logged
AxiosPost(r, post, blocks) ==
  Notified(Called([r EXCEPT !.fetch.posted = <<blocks>>], "post"),
           "set", post)

\* sendSlackNotification and the answer of the handler
AlertNotify(s) ==
  /\ run[s].kind = "alert" /\ run[s].pc = "notify"
  /\ LET r == run[s]
         blocks == SlackBlocks(r.fetch.alerts)
     IN  \/ run' = [run EXCEPT ![s] = Notified(r, "unset", "none")]
         \/ \E post \in {"sent", "failed"} :
              run' = [run EXCEPT ![s] =
                IF blocks.critical = 0 /\ blocks.warning = 0
                THEN Notified(r, "set", "none")
                ELSE AxiosPost(r, post, blocks)]
  /\ UNCHANGED <<conc, nstarted, temp, orders, order_items, inventory,
                 lastTs, sameMs, atStart, frozen, upstream>>

AlertCheck(s) ==
  \/ AlertStart(s) \/ AlertSales(s) \/ AlertInventory(s)
  \/ AlertSave(s) \/ AlertNotify(s)

NextAlerts ==
  \/ Tick
  \/ \E s \in Slots : AlertCheck(s)

\* One invocation is followed; the stockout_alert table exists and is empty.
InitAlerts ==
  /\ conc = 1
  /\ nstarted = MaxRuns - 1
  /\ run = [s \in Slots |-> IdleRun]
  /\ temp = [n \in {stockoutAlertTable} |-> EmptyBag]
  /\ orders = EmptyBag
  /\ order_items = EmptyBag
  /\ inventory = EmptyBag
  /\ lastTs = 0
  /\ sameMs = FALSE
  /\ atStart = [orders |-> EmptyBag, order_items |-> EmptyBag,
                inventory |-> EmptyBag]
  /\ frozen = TRUE
  /\ upstream = [kind |-> "alert", acct |-> 1, fetched |-> FALSE,
                 source |-> <<>>]

SpecAlerts == InitAlerts /\ [][NextAlerts]_vars

\* ==================================================== missing credentials
\* The three sync functions from their first statement on: each reads its
\* credentials from the environment before anything else.

\* a handler that asks for the inventory before it tests the API key
MissingApiKeyLate(r) == Thrown(Called(r, "fetch"), "config")

\* LOGISP_API_KEY is not set: the handler answers 500 and returns
MissingApiKey(r) == Thrown(r, "config")

\* the head of syncLogispInventory: the environment check
LogispBegin(s) ==
  /\ run[s].kind = "logisp" /\ run[s].pc = "fetch"
  /\ run[s].fetch.phase = "none"
  /\ \/ run' = [run EXCEPT ![s] = [@ EXCEPT !.fetch = [phase |-> "checked"]]]
     \/ run' = [run EXCEPT ![s] = MissingApiKey(@)]
  /\ UNCHANGED <<conc, nstarted, temp, orders, order_items, inventory,
                 lastTs, sameMs, atStart, frozen, upstream>>

LogispChecked(s) ==
  \/ LogispStart(s) \/ LogispBegin(s)
  \/ run[s].fetch.phase = "checked" /\ LogispFetch(s)
  \/ LogispCreateTable(s) \/ LogispInsert(s) \/ LogispWake(s)
  \/ LogispMerge(s) \/ LogispDeleteTable(s)

NextCredentials ==
  \/ Tick
  \/ \E s \in Slots : AmazonReports(s)
  \/ \E s \in Slots : ShopifyPaged(s)
  \/ \E s \in Slots : LogispChecked(s)

\* One invocation of one of the three functions is followed.
InitCredentials ==
  /\ conc = 1
  /\ nstarted = MaxRuns - 1
  /\ run = [s \in Slots |-> IdleRun]
  /\ temp = <<>>
  /\ orders = EmptyBag
  /\ order_items = EmptyBag
  /\ inventory = EmptyBag
  /\ lastTs = 0
  /\ sameMs = FALSE
  /\ atStart = [orders |-> EmptyBag, order_items |-> EmptyBag,
                inventory |-> EmptyBag]
  /\ frozen = TRUE
  /\ \/ \E kind \in {"amazon", "logisp"} :
          upstream = [kind |-> kind, acct |-> 1, fetched |-> FALSE,
                      source |-> <<>>]
     \/ \E pages \in ServerPages :
          upstream = [kind |-> "shopify", acct |-> 1, fetched |-> FALSE,
                      source |-> pages]

SpecCredentials == InitCredentials /\ [][NextCredentials]_vars

\* ============================================================ callSpApi alone
MaxCalls == 2      \* successive calls of callSpApi in one run

\* the status codes the endpoint answers with
SpApiStatuses == {200, 202, 403, 429, 500}

\* a callSpApi that retries every answer that is not a success
callSpApiEndRetryAll(statusCode, retryCount) ==
  IF statusCode = 200 \/ statusCode = 202 THEN "resolve"
  ELSE IF retryCount < maxRetries THEN "retry"
  ELSE "reject"

\* res.on('end'): what callSpApi does with the answer to a request
callSpApiEnd(statusCode, retryCount) ==
  IF statusCode = 200 \/ statusCode = 202 THEN "resolve"
  ELSE IF statusCode = 429 /\ retryCount < maxRetries THEN "retry"
  ELSE "reject"

\* a call of callSpApi with the default retryCount = 0
NewCall(n, earlier) ==
  [phase |-> "callSpApi", call |-> n, retryCount |-> 0, requests |-> <<>>,
   result |-> "pending", statusCode |-> 0, earlier |-> earlier]

SpApiBegin(s) ==
  /\ run[s].kind = "amazon" /\ run[s].pc = "fetch"
  /\ run[s].fetch.phase = "none"
  /\ run' = [run EXCEPT ![s] = [@ EXCEPT !.fetch = NewCall(1, <<>>)]]
  /\ UNCHANGED <<conc, nstarted, temp, orders, order_items, inventory,
                 lastTs, sameMs, atStart, frozen, upstream>>

\* https.request and its answer; the request of a retry is sent after the
\* sleep of 60 seconds
SpApiRequest(s) ==
  /\ run[s].kind = "amazon" /\ run[s].pc = "fetch"
  /\ run[s].fetch.phase = "callSpApi"
  /\ run[s].fetch.result = "pending"
  /\ \E statusCode \in SpApiStatuses :
       LET r == run[s]
           f == r.fetch
           sent == [f EXCEPT !.requests = Append(@,
                      [after |-> IF f.retryCount = 0 THEN 0
                                 ELSE rateLimitSleepMs,
                       retryCount |-> f.retryCount,
                       statusCode |-> statusCode])]
           end == callSpApiEnd(statusCode, f.retryCount)
       IN  run' = [run EXCEPT ![s] =
             IF end = "resolve"
             THEN [r EXCEPT !.fetch = [sent EXCEPT !.result = "resolved",
                                                   !.statusCode = statusCode]]
             ELSE IF end = "retry"
             THEN [r EXCEPT !.fetch = [sent EXCEPT !.retryCount = @ + 1]]
             ELSE [Thrown(r, "fetch") EXCEPT !.fetch =
                     [sent EXCEPT !.result = "rejected",
                                  !.statusCode = statusCode]]]
  /\ UNCHANGED <<conc, nstarted, temp, orders, order_items, inventory,
                 lastTs, sameMs, atStart, frozen, upstream>>

\* the caller goes on after a call that resolved: its next call, or the
\* end of the run
SpApiResolved(s) ==
  /\ run[s].kind = "amazon" /\ run[s].pc = "fetch"
  /\ run[s].fetch.phase = "callSpApi"
  /\ run[s].fetch.result = "resolved"
  /\ LET r == run[s]
         f == r.fetch
     IN  run' = [run EXCEPT ![s] =
           IF f.call < MaxCalls
           THEN [r EXCEPT !.fetch = NewCall(f.call + 1,
                                      Append(f.earlier, f.requests))]
           ELSE Responded(r)]
  /\ UNCHANGED <<conc, nstarted, temp, orders, order_items, inventory,
                 lastTs, sameMs, atStart, frozen, upstream>>

NextSpApi ==
  \E s \in Slots :
    \/ AmazonStart(s) \/ SpApiBegin(s) \/ SpApiRequest(s) \/ SpApiResolved(s)

SpecSpApi == InitReports /\ [][NextSpApi]_vars

\* ===================================================== staging inserts alone
MaxBatches == 2    \* full batches a staged list can hold

\* the numbers of records of a fetch: around every multiple of the batch
\* size up to MaxBatches full batches
BatchLens ==
  {1} \cup UNION {{b * batchSize - 1, b * batchSize, b * batchSize + 1} :
                    b \in 1..MaxBatches}

\* a report of n lines, each of another order
BigReport(n) == [k \in 1..n |-> ReportRow(ToString(k), "", 1)]

\* n Shopify orders of one line item each
BigOrders(n) == [k \in 1..n |-> PagedOrder(k)]

\* the handlers up to the end of their insert loops
Staging(s) ==
  \/ AmazonStart(s) \/ AmazonFetch(s) \/ AmazonDropOld(s)
  \/ AmazonCreateTable(s) \/ AmazonInsert(s)
  \/ ShopifyStart(s) \/ ShopifyFetch(s)
  \/ ShopifyCreateOrdersTable(s) \/ ShopifyInsertOrders(s)
  \/ ShopifyCreateItemsTable(s) \/ ShopifyInsertItems(s)

NextBatches == \E s \in Slots : Staging(s)

\* One invocation is followed; its fetch returns one of the long lists.
InitBatches ==
  /\ conc = 1
  /\ nstarted = MaxRuns - 1
  /\ run = [s \in Slots |-> IdleRun]
  /\ temp = <<>>
  /\ orders = EmptyBag
  /\ order_items = EmptyBag
  /\ inventory = EmptyBag
  /\ lastTs = 0
  /\ sameMs = FALSE
  /\ atStart = [orders |-> EmptyBag, order_items |-> EmptyBag,
                inventory |-> EmptyBag]
  /\ frozen = TRUE
  /\ \E n \in BatchLens :
       \/ upstream = [kind |-> "amazon", acct |-> 1, fetched |-> TRUE,
                      source |-> BigReport(n)]
       \/ upstream = [kind |-> "shopify", acct |-> 1, fetched |-> TRUE,
                      source |-> BigOrders(n)]

SpecBatches == InitBatches /\ [][NextBatches]_vars

\* ============================================ a run after an earlier run
\* what the one earlier invocation staged, when it was an Amazon sync
EarlierStaged == SeqToBag(parseReportData(<<ReportRow("o1", "", 1)>>, 1, 1))

\* what it staged when it was a Logisp sync
EarlierInventory ==
  LET rows == convertInventoryData(<<[sku |-> "B", quantity |-> 5]>>,
                                   CHOOSE pm \in ProductMasters : TRUE, 1)
  IN  SeqToBag([k \in 1..Len(rows) |-> StagedInventoryRow(rows[k])])

\* One invocation is followed from its first statement; the one before it
\* merged its rows into empty tables and deleted its staging table.
InitResync ==
  /\ conc = 1
  /\ nstarted = MaxRuns - 1
  /\ run = [s \in Slots |-> IdleRun]
  /\ temp = <<>>
  /\ \/ /\ orders \in AmazonOrderSources(EarlierStaged)
        /\ order_items = AmazonItemSource(EarlierStaged)
        /\ inventory = EmptyBag
     \/ /\ orders = EmptyBag
        /\ order_items = EmptyBag
        /\ inventory = EarlierInventory
  /\ lastTs = 1
  /\ sameMs = FALSE
  /\ atStart = [orders |-> orders, order_items |-> order_items,
                inventory |-> inventory]
  /\ frozen = TRUE
  /\ \/ \E kind \in {"amazon", "logisp"} :
          upstream = [kind |-> kind, acct |-> 1, fetched |-> FALSE,
                      source |-> <<>>]
     \/ \E pages \in ServerPages :
          upstream = [kind |-> "shopify", acct |-> 1, fetched |-> FALSE,
                      source |-> pages]

SpecResync == InitResync /\ [][NextCredentials]_vars

\* One invocation of any of the three syncs is followed, with whatever its
\* fetch returns, after the one before it merged its rows.
InitAfter ==
  /\ conc = 1
  /\ nstarted = MaxRuns - 1
  /\ run = [s \in Slots |-> IdleRun]
  /\ temp = <<>>
  /\ \/ /\ orders \in AmazonOrderSources(EarlierStaged)
        /\ order_items = AmazonItemSource(EarlierStaged)
        /\ inventory = EmptyBag
     \/ /\ orders = EmptyBag
        /\ order_items = EmptyBag
        /\ inventory = EarlierInventory
  /\ lastTs = 1
  /\ sameMs = FALSE
  /\ atStart = [orders |-> orders, order_items |-> order_items,
                inventory |-> inventory]
  /\ frozen = FALSE
  /\ upstream = NoUpstream

SpecAfter == InitAfter /\ [][Next]_vars

\* ================================================================= properties
MergeOps == {"mergeOrders", "mergeItems", "merge"}
Finished(r) == r.pc = "done"

\* the durable tables without their timestamp columns
NoOrderTimes(B) ==
  BagOfAll(LAMBDA r : [r EXCEPT !.created_at = 0, !.updated_at = 0], B)
NoItemTimes(B) == BagOfAll(LAMBDA r : [r EXCEPT !.created_at = 0], B)
NoInventoryTimes(B) == BagOfAll(LAMBDA r : [r EXCEPT !.last_updated = 0], B)

\* a run that repeated the one before it on the same records and is over
Repeated(r) == r.rerun /\ Finished(r) /\ r.no = nstarted

\* the orders of an Amazon run that its report holds in several rows
SeveralRows(r) ==
  IF r.kind # "amazon" THEN {}
  ELSE {OrderKey(r.allOrders[j]) : j \in {k \in 1..Len(r.allOrders) :
          \E m \in 1..Len(r.allOrders) :
             m # k /\ OrderKey(r.allOrders[m]) = OrderKey(r.allOrders[k])}}

Unique(B, on) ==
  \A t \in DOMAIN B : BagCardinality(Matches(B, on, t)) = 1

\* C2: no two rows of the durable orders table share (order_id, channel).
C2_OrdersKeyUnique == Unique(orders, ordersOn)

\* C3: no two rows of the durable order_items table share
\* (order_id, channel, line_item_id).
C3_ItemsKeyUnique == Unique(order_items, orderItemsOn)

\* C4: no two rows of the durable inventory table share (sku, location).
C4_InventoryKeyUnique == Unique(inventory, inventoryOn)

\* C5: a run issues a merge only when 90 seconds have passed since its last
\* staging insert, and inserts nothing once its wait has begun.
C5_MergeAfterVisibilityWait ==
  \A s \in Slots :
    LET log == run[s].log
    IN  \A k \in 1..Len(log) :
          /\ log[k].op \in MergeOps => log[k].age >= 90000
          /\ log[k].op = "insert" =>
               \A j \in 1..(k - 1) : log[j].op # "sleep"

\* a run has staged in several inserts, waited and merged
C5_Witness ==
  \E s \in Slots :
    LET log == run[s].log
    IN  /\ \E k \in 1..Len(log) : log[k].op \in MergeOps /\ log[k].ok
        /\ Cardinality({k \in 1..Len(log) : log[k].op = "insert"}) > 1

\* C6: a run whose merge failed has issued the delete of its staging table
\* by the time it returns.
C6_CleanupAfterMergeFailure ==
  \A s \in Slots :
    LET log == run[s].log
    IN  Finished(run[s]) =>
          \A k \in 1..Len(log) :
            log[k].op \in MergeOps /\ ~log[k].ok =>
              \E j \in (k + 1)..Len(log) : log[j].op = "delete"

\* C7: a run whose staging insert failed issues no merge and has attempted
\* the delete of its staging area by the time it returns.
C7_CleanupAfterInsertFailure ==
  \A s \in Slots :
    LET log == run[s].log
    IN  Finished(run[s]) =>
          \A k \in 1..Len(log) :
            log[k].op = "insert" /\ ~log[k].ok =>
              /\ \A j \in 1..Len(log) : log[j].op \notin MergeOps
              /\ \E j \in (k + 1)..Len(log) : log[j].op = "delete"

\* C8: once every run has finished, no staging table is left in the store.
C8_NoStagingTableLeft ==
  (\A s \in Slots : ~Active(run[s])) => DOMAIN temp = {}

\* C9: a failed delete of the staging table does not change the outcome: a
\* run whose merges succeeded answers success, and a run whose merge failed
\* reports that merge.
C9_CleanupFailureNotReported ==
  \A s \in Slots :
    LET log == run[s].log
        failed(ops) == \E k \in 1..Len(log) : log[k].op \in ops /\ ~log[k].ok
    IN  Finished(run[s]) =>
          /\ failed({"delete"}) /\ ~failed(MergeOps) =>
               run[s].outcome = "success"
          /\ failed(MergeOps) => run[s].error \in MergeOps

\* the rows a run has staged in the table a merge reads
OwnRows(r, of) ==
  CASE r.kind = "amazon" -> SeqToBag(r.allOrders)
    [] r.kind = "shopify" /\ of = "orders" -> SeqToBag(r.ordersForBQ)
    [] r.kind = "shopify" /\ of = "items" -> SeqToBag(r.orderItemsForBQ)
    [] OTHER -> SeqToBag([k \in 1..Len(r.inventoryRows) |->
                           StagedInventoryRow(r.inventoryRows[k])])

\* C10: the merge of a run reads a staging table that holds exactly the
\* rows this run staged.
C10_MergeReadsOwnRows ==
  \A s \in Slots :
    run[s].read.of # "none" =>
      /\ run[s].read.exists
      /\ run[s].read.rows = OwnRows(run[s], run[s].read.of)

\* the names of the staging tables a run has chosen so far
StagingNames(r) ==
  CASE r.kind = "amazon" /\ (r.log # <<>> \/ r.pc = "createTempTable") ->
         {tempTableId}
    [] r.kind = "shopify" /\ r.timestamp # 0 ->
         {tempTableOrders(r.timestamp), tempTableItems(r.timestamp)}
    [] r.kind = "logisp" /\ r.timestamp # 0 ->
         {LogispTempTable(r.timestamp)}
    [] OTHER -> {}

\* C11: any two runs, overlapping ones included, obtain different names for
\* their staging tables.
C11_StagingNamesDiffer ==
  \A s, t \in Slots :
    s # t => StagingNames(run[s]) \cap StagingNames(run[t]) = {}

\* the durable tables hold every row of run r under its merge key with the
\* values of r: the merged columns of its staged rows, and for an Amazon
\* order the sum and one of the names of its report rows
Stored(r) ==
  CASE r.kind = "amazon" ->
         \A k \in 1..Len(r.allOrders) :
           LET a == r.allOrders[k]
               same == {j \in 1..Len(r.allOrders) :
                          OrderKey(r.allOrders[j]) = OrderKey(a)}
           IN  /\ \E t \in DOMAIN orders :
                    /\ OrderKey(t) = OrderKey(a)
                    /\ t.total_amount =
                         SumBag(SeqToBag([j \in 1..Len(r.allOrders) |->
                           IF j \in same THEN r.allOrders[j].total_amount
                           ELSE 0]))
                    /\ \E j \in same :
                         t.customer_name = r.allOrders[j].customer_name
               /\ \E t \in DOMAIN order_items :
                    ItemKey(t) = ItemKey(a) /\ t.quantity = a.quantity
    [] r.kind = "shopify" ->
         /\ \A k \in 1..Len(r.ordersForBQ) :
              \E t \in DOMAIN orders :
                /\ OrderKey(t) = OrderKey(r.ordersForBQ[k])
                /\ t.customer_name = r.ordersForBQ[k].customer_name
                /\ t.total_amount = r.ordersForBQ[k].total_amount
         /\ \A k \in 1..Len(r.orderItemsForBQ) :
              \E t \in DOMAIN order_items :
                /\ ItemKey(t) = ItemKey(r.orderItemsForBQ[k])
                /\ t.quantity = r.orderItemsForBQ[k].quantity
    [] r.kind = "logisp" ->
         \A k \in 1..Len(r.inventoryRows) :
           \E t \in DOMAIN inventory :
             /\ InventoryKey(t) = InventoryKey(r.inventoryRows[k])
             /\ t.available_quantity = r.inventoryRows[k].available_quantity
    [] OTHER -> TRUE

\* C12: at the step in which a run answers success, the durable tables hold
\* every row the run produced, under its merge key and with its values.
C12_SuccessMeansStored ==
  [][\A s \in Slots :
       run[s].outcome # "success" /\ run'[s].outcome = "success"
         => Stored(run[s])']_vars

\* the sequences of ss one after another, computed by halving the list
RECURSIVE Flatten(_)
Flatten(ss) ==
  IF ss = <<>> THEN <<>>
  ELSE IF Len(ss) = 1 THEN ss[1]
  ELSE LET half == Len(ss) \div 2
       IN  Flatten(SubSeq(ss, 1, half)) \o Flatten(SubSeq(ss, half + 1, Len(ss)))

\* C13: when the Shopify page loop has ended normally, the first request
\* carried no page_info, every later request carried the page_info given by
\* the rel="next" link of the response before it, no request followed a
\* response without rel="next", the loop went on while the link could be
\* followed and the page budget allowed, and allOrders is the concatenation
\* of the pages received; for pages of 250 and 40 orders, the second without
\* a link, that is 290 orders after 2 requests.
C13_PagesFetched ==
  \A s \in Slots :
    LET r == run[s]
        f == r.fetch
        pages == upstream.source
        req == f.requests
        n == Len(req)
        served(k) == pages[IF req[k].page_info = NoToken THEN 1
                           ELSE req[k].page_info]
    IN  r.kind = "shopify" /\ f.phase = "paged" =>
          /\ n >= 1 /\ req[1].page_info = NoToken
          /\ \A k \in 2..n :
               /\ served(k - 1).link.rel = "next"
               /\ req[k].page_info = served(k - 1).link.page_info
          /\ \/ served(n).link.rel # "next"
             \/ served(n).link.page_info = NoToken
             \/ n = maxPages(f.isFullSync)
          /\ r.allOrders = Flatten([k \in 1..n |-> served(k).orders])
          /\ pages = TwoPages => n = 2 /\ Len(r.allOrders) = 290

\* the loop has fetched the two pages of 250 and 40 orders
C13_Witness ==
  \E s \in Slots :
    /\ run[s].kind = "shopify" /\ run[s].fetch.phase = "paged"
    /\ upstream.source = TwoPages
    /\ Len(run[s].fetch.requests) = 2
    /\ Len(run[s].allOrders) = 290

\* C14: when the window loop has ended, the sub-windows it requested start at
\* the start of the interval, end at its end, are at most 30 days long, and
\* each begins at the instant the one before it ended.
C14_WindowsCoverInterval ==
  \A s \in Slots :
    LET f == run[s].fetch
    IN  run[s].kind = "amazon" /\ f.phase = "fetched" =>
          LET w == f.windows
              n == Len(w)
          IN  /\ f.startDate < f.endDate =>
                   /\ n >= 1
                   /\ w[1].start = f.startDate
                   /\ w[n].end = f.endDate
              /\ \A k \in 1..n :
                   /\ w[k].start < w[k].end
                   /\ w[k].end - w[k].start <= 30 * day
              /\ \A k \in 1..(n - 1) : w[k + 1].start = w[k].end

\* C15: a status poll that shows DONE ends waitForReport with the document id
\* of the report, the download follows only such a poll, and a status poll
\* that shows FATAL or CANCELLED ends the run with the error of waitForReport,
\* so that no later poll of the report exists.
C15_WaitForReportEnds ==
  \A s \in Slots :
    LET r == run[s]
        f == r.fetch
    IN  r.kind = "amazon" /\ f.phase # "none" =>
          /\ f.status = "DONE" =>
                /\ r.pc # "poll"
                /\ f.documentId = <<"document", f.reportId>>
          /\ r.pc = "download" => f.polled /\ f.status = "DONE"
          /\ f.status \in {"FATAL", "CANCELLED"} =>
                /\ r.pc = "done"
                /\ r.outcome = "error"
                /\ r.error = "waitForReport"

\* the report of the first window was DONE and downloaded, the report of the
\* second was CANCELLED
C15_Witness ==
  \E s \in Slots :
    /\ run[s].kind = "amazon" /\ run[s].fetch.phase # "none"
    /\ Len(run[s].fetch.windows) = 2
    /\ Len(run[s].allOrders) > 0
    /\ run[s].fetch.status = "CANCELLED"
    /\ run[s].error = "waitForReport"

\* a step of waitForReport for the run in slot s
WaitStep(s) == run[s].pc = "poll" /\ run'[s].fetch # run[s].fetch

C17_TimeoutKeepsEarlierWindows ==
  \A s \in Slots :
    run[s].kind = "amazon" /\ run[s].fetch.phase = "timeout"
      => Stored(run[s])

\* C18: a Shopify page request answered 429 is followed, after a wait longer
\* than the delay between pages, by a request for the same page; a run ends
\* on a 429 only when the request before it was such a 429 too.
C18_TooManyRequestsIsRetried ==
  \A s \in Slots :
    LET r == run[s]
    IN  r.kind = "shopify" /\ r.fetch.phase # "none" =>
          LET req == r.fetch.requests
              n == Len(req)
          IN  \A k \in 1..n :
                req[k].status = 429 =>
                  \/ /\ k < n
                     /\ req[k + 1].page_info = req[k].page_info
                     /\ req[k + 1].after > shopifyPageDelayMs
                  \/ k = n /\ r.pc = "page"
                  \/ /\ k = n /\ k > 1
                     /\ req[k - 1].status = 429
                     /\ req[k - 1].page_info = req[k].page_info

\* C19: the conversion of the fetched Shopify orders never ends the run, and
\* it yields one order row for every order that has an id and one item row
\* for every line item that has an id in such an order, leaving out the rest.
C19_RecordsWithoutKeySkipped ==
  \A s \in Slots :
    LET r == run[s]
        withId == {k \in 1..Len(r.allOrders) : r.allOrders[k].id # ""}
        itemsWithId(k) ==
          {j \in 1..Len(r.allOrders[k].line_items) :
             r.allOrders[k].line_items[j].id # ""}
    IN  r.kind = "shopify" /\ r.fetch.phase = "paged" =>
          /\ r.error # "convert"
          /\ r.timestamp # 0 =>
                /\ Len(r.ordersForBQ) = Cardinality(withId)
                /\ Len(r.orderItemsForBQ) =
                     Cardinality(UNION {{<<k, j>> : j \in itemsWithId(k)} :
                                          k \in withId})

\* the original_quantity of a row, as the list of its value if it has one
OriginalQuantity(r, row) ==
  IF r.fetch.file = "part_001" THEN row.original_quantity
  ELSE <<row.original_quantity>>

\* C20: convertInventoryData gives one row for every item that has a SKU;
\* for a SKU mapped with is_case_product = true and units_per_case = u the
\* row has available_quantity = total_quantity = quantity * u, for a SKU
\* mapped with is_case_product = false the quantity of the item, and for a
\* case product original_sku is the SKU and original_quantity the quantity
\* of the item.
C20_CaseConversion ==
  \A s \in Slots :
    LET r == run[s]
    IN  r.fetch.phase = "converted" =>
          LET items == SelectSeq(r.inventoryData, LAMBDA i : i.sku # "")
              rows == r.inventoryRows
          IN  /\ Len(rows) = Len(items)
              /\ \A k \in 1..Len(items) :
                   items[k].sku \in DOMAIN r.productMaster =>
                     LET product == r.productMaster[items[k].sku]
                         expected ==
                           IF product.is_case_product
                           THEN items[k].quantity * product.units_per_case
                           ELSE items[k].quantity
                     IN  /\ rows[k].available_quantity = expected
                         /\ rows[k].total_quantity = expected
                         /\ product.is_case_product =>
                              /\ rows[k].original_sku = items[k].sku
                              /\ OriginalQuantity(r, rows[k])
                                   = <<items[k].quantity>>

\* C21: every row a Logisp run has staged, and every row of the inventory
\* table under the key of one of the run's rows once the run has merged,
\* carries the original_sku and the original_quantity of a converted row of
\* that key.
C21_OriginalsCarried ==
  \A s \in Slots :
    LET r == run[s]
        name == LogispTempTable(r.timestamp)
        carried(t) ==
          \E k \in 1..Len(r.inventoryRows) :
            /\ InventoryKey(t) = InventoryKey(r.inventoryRows[k])
            /\ {"original_sku", "original_quantity"} \subseteq DOMAIN t
            /\ t.original_sku = r.inventoryRows[k].original_sku
            /\ t.original_quantity = r.inventoryRows[k].original_quantity
    IN  r.kind = "logisp" /\ r.timestamp # 0 =>
          /\ Exists(name) => \A t \in DOMAIN temp[name] : carried(t)
          /\ r.pc = "deleteTable" =>
                \A t \in DOMAIN inventory :
                  (\E k \in 1..Len(r.inventoryRows) :
                     InventoryKey(t) = InventoryKey(r.inventoryRows[k]))
                    => carried(t)

\* C22: convertInventoryData gives one row for every item that has a SKU;
\* the row of an item whose SKU has no mapping has that SKU, is not case
\* converted and has the quantity of the item; and the function warns of a
\* missing mapping once for every such item, with a message other than the
\* one for a missing SKU.
C22_UnmappedPassedThrough ==
  \A s \in Slots :
    LET r == run[s]
    IN  r.fetch.phase = "converted" =>
          LET items == SelectSeq(r.inventoryData, LAMBDA i : i.sku # "")
              rows == r.inventoryRows
              unmapped == {k \in 1..Len(items) :
                             items[k].sku \notin DOMAIN r.productMaster}
              flagged == {k \in 1..Len(r.fetch.warnings) :
                            r.fetch.warnings[k] = "sku mapping not found"}
          IN  /\ Len(rows) = Len(items)
              /\ \A k \in unmapped :
                   /\ rows[k].sku = items[k].sku
                   /\ rows[k].is_case_converted = FALSE
                   /\ rows[k].available_quantity = items[k].quantity
                   /\ rows[k].total_quantity = items[k].quantity
              /\ Cardinality(flagged) = Cardinality(unmapped)

\* C23: the row convertInventoryData gives for an item whose SKU has a
\* mapping has the master_sku of the mapping as its sku, for a case product
\* and for any other product.
C23_MappedRowsCarryMasterSku ==
  \A s \in Slots :
    LET r == run[s]
    IN  r.fetch.phase = "converted" =>
          LET items == SelectSeq(r.inventoryData, LAMBDA i : i.sku # "")
              rows == r.inventoryRows
          IN  /\ Len(rows) = Len(items)
              /\ \A k \in 1..Len(items) :
                   items[k].sku \in DOMAIN r.productMaster =>
                     rows[k].sku = r.productMaster[items[k].sku].master_sku

\* a run of the stockout alert check that has made its forecast
Forecast(r) == r.kind = "alert" /\ r.fetch.phase \in {"forecast", "notified"}

\* the available stock of a master SKU summed over the inventory rows
Available(r, sku) ==
  SumOver(r.fetch.inventoryResults, sku, "available_quantity")
Inbound(r, sku) ==
  SumOver(r.fetch.inventoryResults, sku, "inbound_quantity")

\* C24: for every row of the sales query the forecast holds no alert or one
\* alert: with no available stock a CRITICAL alert of 0 days; otherwise,
\* with days the whole part of available / (total_sold / 30), a CRITICAL
\* alert for days <= 7, a WARNING alert for 8 <= days <= 14 and no alert
\* for days >= 15, the alert carrying that number of days.
C24_AlertLevels ==
  \A s \in Slots :
    LET r == run[s]
    IN  Forecast(r) =>
          \A k \in DOMAIN r.fetch.salesResults :
            LET sale == r.fetch.salesResults[k]
                available == Available(r, sale.master_sku)
                days == IF available = 0 THEN 0
                        ELSE (30 * available) \div sale.total_sold
                level == IF available = 0 \/ days <= 7 THEN "CRITICAL"
                         ELSE IF days <= 14 THEN "WARNING" ELSE "NORMAL"
                mine == {j \in DOMAIN r.fetch.alerts :
                           r.fetch.alerts[j].master_sku = sale.master_sku}
            IN  IF level = "NORMAL" THEN mine = {}
                ELSE /\ Cardinality(mine) = 1
                     /\ \A j \in mine :
                          /\ r.fetch.alerts[j].alert_level = level
                          /\ r.fetch.alerts[j].days_until_stockout = days

\* the sales of the trailing 30 days of a master SKU of the sales query
TotalSold(r, sku) ==
  LET k == CHOOSE k \in DOMAIN r.fetch.salesResults :
             r.fetch.salesResults[k].master_sku = sku
  IN  r.fetch.salesResults[k].total_sold

\* ceil(daily_avg_sales * 30) - available - inbound for a master SKU, where
\* daily_avg_sales * 30 is the total sold
Reorder(r, sku) == TotalSold(r, sku) - Available(r, sku) - Inbound(r, sku)

\* C25: every alert of the forecast suggests the month's sales less the
\* available and the inbound stock; the record saved for it and the section
\* posted for it carry that figure, or 0 if it is negative.
C25_SuggestedOrderQuantity ==
  \A s \in Slots :
    LET r == run[s]
    IN  Forecast(r) =>
          /\ \A j \in DOMAIN r.fetch.alerts :
               r.fetch.alerts[j].suggested_order_qty
                 = Reorder(r, r.fetch.alerts[j].master_sku)
          /\ r.pc = "notify" =>
               \A rec \in DOMAIN temp[stockoutAlertTable] :
                 rec.suggested_order_qty = Max(0, Reorder(r, rec.sku))
          /\ \A k \in DOMAIN r.fetch.posted :
               \A j \in DOMAIN r.fetch.posted[k].sections :
                 LET section == r.fetch.posted[k].sections[j]
                 IN  section.suggested_order_qty
                       = Max(0, Reorder(r, section.master_sku))

\* C26: the message posted to Slack has a section for at most 10 alerts,
\* all of them CRITICAL, and the count of the WARNING alerts; no CRITICAL
\* alert left without a section has fewer days until stockout than one that
\* has a section.
C26_NotificationDetails ==
  \A s \in Slots :
    LET r == run[s]
    IN  Forecast(r) =>
          \A k \in DOMAIN r.fetch.posted :
            LET alerts == r.fetch.alerts
                sections == r.fetch.posted[k].sections
                detailed == {j \in DOMAIN alerts :
                               \E i \in DOMAIN sections :
                                 sections[i].master_sku = alerts[j].master_sku}
                critical == {j \in DOMAIN alerts :
                               alerts[j].alert_level = "CRITICAL"}
                warning == {j \in DOMAIN alerts :
                              alerts[j].alert_level = "WARNING"}
            IN  /\ Len(sections) <= 10
                /\ Cardinality(detailed) = Len(sections)
                /\ detailed \subseteq critical
                /\ Cardinality(detailed) = Min(10, Cardinality(critical))
                /\ r.fetch.posted[k].warning = Cardinality(warning)
                /\ \A j \in detailed : \A i \in critical \ detailed :
                     alerts[j].days_until_stockout
                       <= alerts[i].days_until_stockout

\* C27: a run that has been through sendSlackNotification has answered
\* success; it has posted nothing if no webhook URL is set; and the
\* stockout_alert table holds a record for each of its alerts, whether the
\* post was sent, failed or not made.
C27_NotificationNeverFails ==
  \A s \in Slots :
    LET r == run[s]
    IN  r.kind = "alert" /\ r.fetch.phase = "notified" =>
          /\ r.pc = "done" /\ r.outcome = "success" /\ r.error = "none"
          /\ r.fetch.webhookUrl = "unset" =>
                r.fetch.posted = <<>> /\ r.fetch.post = "none"
          /\ BagCardinality(temp[stockoutAlertTable]) = Len(r.fetch.alerts)
          /\ \A j \in DOMAIN r.fetch.alerts :
               \E rec \in DOMAIN temp[stockoutAlertTable] :
                 /\ rec.sku = r.fetch.alerts[j].master_sku
                 /\ rec.alert_level = r.fetch.alerts[j].alert_level
                 /\ rec.days_until_stockout
                      = r.fetch.alerts[j].days_until_stockout

\* the post of a message with a CRITICAL section has failed
C27_Witness ==
  \E s \in Slots :
    /\ run[s].kind = "alert" /\ run[s].fetch.phase = "notified"
    /\ run[s].fetch.post = "failed"
    /\ Len(run[s].fetch.posted) = 1
    /\ run[s].fetch.posted[1].critical > 0
    /\ run[s].outcome = "success"
    /\ BagCardinality(temp[stockoutAlertTable]) > 0

\* C28: a run that found its credentials missing has ended with an error
\* and has done nothing else: its log holds that failure alone, it has sent
\* no request and fetched nothing, no table exists, the durable tables are
\* as they were when it started, and the run takes no further step.
C28_MissingCredentialsFailAtOnce ==
  /\ [](\A s \in Slots :
          LET r == run[s]
          IN  r.error = "config" =>
                /\ r.pc = "done" /\ r.outcome = "error"
                /\ Len(r.log) = 1 /\ ~r.log[1].ok
                /\ r.fetch.phase = "none"
                /\ r.allOrders = <<>> /\ r.inventoryData = <<>>
                /\ r.timestamp = 0
                /\ DOMAIN temp = {}
                /\ orders = atStart.orders
                /\ order_items = atStart.order_items
                /\ inventory = atStart.inventory)
  /\ [][\A s \in Slots :
          run[s].error = "config" => run'[s] = run[s]]_vars

\* a Logisp run without its API key, after time has passed
C28_Witness ==
  \E s \in Slots :
    /\ run[s].kind = "logisp"
    /\ run[s].error = "config"
    /\ run[s].pc = "done"


\* C29: after a merge, every durable row under a staged key that already
\* existed carries the staged values of the mutable business fields; for
\* order lines these include quantity, quantity_fulfilled and
\* quantity_unfulfilled.  Stated for the order_items MERGE of the Amazon
\* sync: the source row is the one the USING clause hands to the MERGE.
C29_MergedFieldsEqualStaged ==
  [][\A s \in Slots :
       (/\ run[s].kind = "amazon"
        /\ run[s].pc = "mergeItems"
        /\ run'[s].pc = "deleteTempTable") =>
         \A x \in DOMAIN AmazonItemSource(temp[tempTableId]) :
           (\E u \in DOMAIN order_items : ItemKey(u) = ItemKey(x)) =>
             \A t \in DOMAIN order_items' :
               ItemKey(t) = ItemKey(x) =>
                 /\ t.quantity = x.quantity
                 /\ t.quantity_fulfilled = x.quantity_fulfilled
                 /\ t.quantity_unfulfilled = x.quantity_unfulfilled]_vars


\* The sub-records the staging table holds for one (order_id, channel).
StagedGroup(T, k) == Restrict(T, {r \in DOMAIN T : OrderKey(r) = k})

\* S has exactly one row for every staged key: its amount is the sum over
\* the key's sub-records and each descriptive field is a sub-record's.
OneRowPerStagedOrder(S, T) ==
  \A k \in {OrderKey(r) : r \in DOMAIN T} :
    LET g == StagedGroup(T, k)
        rows == {x \in DOMAIN S : OrderKey(x) = k}
    IN  /\ Cardinality(rows) = 1
        /\ \A x \in rows :
             /\ S[x] = 1
             /\ x.total_amount =
                  SumBag(BagOfAll(LAMBDA r : r.total_amount, g))
             /\ \E r \in DOMAIN g : x.account_name = r.account_name
             /\ \E r \in DOMAIN g : x.customer_name = r.customer_name
             /\ \E r \in DOMAIN g : x.created_at = r.created_at
             /\ \E r \in DOMAIN g : x.updated_at = r.updated_at

\* C30: whatever sub-records the Amazon staging table holds for one
\* (order_id, channel), the orders MERGE reads exactly one source row for
\* that key, with the amounts summed over the sub-records and every
\* descriptive field taken from one of them; a key new to orders is
\* therefore inserted as one row carrying the summed amount.
C30_OneSourceRowPerOrder ==
  /\ [](\A s \in Slots :
          (/\ run[s].kind = "amazon"
           /\ run[s].pc = "mergeOrders"
           /\ Exists(tempTableId)) =>
            \A S \in AmazonOrderSources(temp[tempTableId]) :
              OneRowPerStagedOrder(S, temp[tempTableId]))
  /\ [][\A s \in Slots :
          (/\ run[s].kind = "amazon"
           /\ run[s].pc = "mergeOrders"
           /\ run'[s].pc = "mergeItems") =>
            \A k \in {OrderKey(r) : r \in DOMAIN temp[tempTableId]} :
              (\A u \in DOMAIN orders : OrderKey(u) # k) =>
                OneRowPerStagedOrder(
                  Restrict(orders', {x \in DOMAIN orders' : OrderKey(x) = k}),
                  StagedGroup(temp[tempTableId], k))]_vars

\* the orders merge has run over a staging table with two sub-records of
\* one order
C30_Witness ==
  \E s \in Slots :
    /\ run[s].kind = "amazon"
    /\ run[s].pc = "mergeItems"
    /\ Exists(tempTableId)
    /\ \E k \in {OrderKey(r) : r \in DOMAIN temp[tempTableId]} :
         /\ BagCardinality(StagedGroup(temp[tempTableId], k)) > 1
         /\ \E x \in DOMAIN orders :
              /\ OrderKey(x) = k
              /\ x.total_amount > 100


\* C31: in every state of the durable order_items table, whatever syncs
\* and re-syncs have run, quantity_fulfilled + quantity_unfulfilled equals
\* quantity on every row.
C31_FulfilledPlusUnfulfilled ==
  \A t \in DOMAIN order_items :
    t.quantity_fulfilled + t.quantity_unfulfilled = t.quantity


\* C32: in every state, also after a run that failed between the orders
\* merge and the line-items merge, every row of order_items has a row of
\* orders with the same (order_id, channel).
C32_EveryItemHasItsOrder ==
  \A t \in DOMAIN order_items :
    \E o \in DOMAIN orders : OrderKey(o) = OrderKey(t)


\* The rows of table B under the merge key of row r.
RowsUnderKey(B, on, r) ==
  BagCardinality(Restrict(B, {t \in DOMAIN B : KeyOf(t, on) = KeyOf(r, on)}))

\* Every merge key of B is a key of Bnext, with as many rows at least.
KeysKept(B, Bnext, on) ==
  \A r \in DOMAIN B : RowsUnderKey(Bnext, on, r) >= RowsUnderKey(B, on, r)

\* C33: no step of a sync run, successful or failing, removes a row from
\* orders, order_items or inventory: a merge key present in a durable
\* table is present after every later step.
C33_NoRowRemoved ==
  [][/\ KeysKept(orders, orders', ordersOn)
     /\ KeysKept(order_items, order_items', orderItemsOn)
     /\ KeysKept(inventory, inventory', inventoryOn)]_vars

\* a second Amazon run has ended, one way or the other, after merging
\* into tables that hold rows of the first
C33_Witness ==
  \E s \in Slots :
    /\ run[s].kind = "amazon"
    /\ run[s].no = 2
    /\ Finished(run[s])
    /\ \E e \in 1..Len(run[s].log) : run[s].log[e].op = "mergeOrders"
    /\ \E o \in DOMAIN orders : o.created_at = 1
    /\ \E t \in DOMAIN order_items : t.created_at = 1


\* C34: a Shopify run with full_sync set has the page budget of 200, and
\* when it is given no days_back its window is wider than the default of
\* 30 days.
C34_FullSyncWidensWindow ==
  \A s \in Slots :
    (/\ run[s].kind = "shopify"
     /\ run[s].fetch.phase \in {"paging", "paged"}
     /\ run[s].fetch.isFullSync) =>
       /\ maxPages(run[s].fetch.isFullSync) = 200
       /\ run[s].fetch.days_back = <<>> =>
            /\ run[s].fetch.daysBack > defaultDaysBack
            /\ \A k \in 1..Len(run[s].fetch.requests) :
                 run[s].fetch.requests[k].created_at_min > defaultDaysBack


\* The requests of the call of callSpApi a run is in or ended on.
Requests(r) == r.fetch.requests

\* C35: a call of callSpApi sends again only after a 429 and after a sleep
\* of 60 seconds, at most 3 times: answered 429 every time it has sent 4
\* requests and rejects with status 429; any other status that is not 200
\* or 202 rejects at once; the count starts at 0 in every call, whatever
\* the calls before it needed.
C35_RetryBudgetPerCall ==
  \A s \in Slots :
    run[s].fetch.phase = "callSpApi" =>
      LET f == run[s].fetch
          q == Requests(run[s])
          n == Len(q)
      IN  /\ n <= 4
          /\ \A k \in 1..n : q[k].after = IF k = 1 THEN 0 ELSE 60000
          /\ \A k \in 1..n : k < n => q[k].statusCode = 429
          /\ f.result = "pending" =>
               n < 4 /\ \A k \in 1..n : q[k].statusCode = 429
          /\ f.result = "resolved" =>
               n >= 1 /\ q[n].statusCode \in {200, 202}
          /\ f.result = "rejected" =>
               /\ n >= 1
               /\ f.statusCode = q[n].statusCode
               /\ q[n].statusCode \notin {200, 202}
               /\ q[n].statusCode = 429 => n = 4
               /\ run[s].pc = "done" /\ run[s].outcome = "error"
          /\ n >= 1 /\ q[n].statusCode \notin {200, 202, 429} =>
               f.result = "rejected"
          /\ n = 4 /\ q[n].statusCode = 429 =>
               f.result = "rejected" /\ f.statusCode = 429

\* a second call answered 429 four times has rejected, after a first call
\* that used up its three retries
C35_Witness ==
  \E s \in Slots :
    /\ run[s].fetch.phase = "callSpApi"
    /\ run[s].fetch.call = 2
    /\ Len(run[s].fetch.earlier[1]) = 4
    /\ Len(Requests(run[s])) = 4
    /\ run[s].fetch.result = "rejected"
    /\ run[s].fetch.statusCode = 429


\* The insert calls of a run that returned.
InsertCalls(r) ==
  Cardinality({e \in 1..Len(r.log) : r.log[e].op = "insert" /\ r.log[e].ok})

\* ceil(n / 500)
Batches(n) == (n + 499) \div 500

\* Table name holds the first rows of the list, `calls` batches of 500 of
\* them, each row once.
StagedPrefix(name, rows, calls) ==
  /\ Exists(name)
  /\ temp[name] = SeqToBag(SubSeq(rows, 1, Min(500 * calls, Len(rows))))
  /\ \A x \in DOMAIN temp[name] : temp[name][x] = 1

\* C36: the staging inserts take the rows in consecutive batches of at
\* most 500, one call after the other in input order; when the loop is
\* over every row is staged exactly once and ceil(n / 500) calls were made.
C36_BatchesOfFiveHundred ==
  \A s \in Slots :
    LET r == run[s]
        c == InsertCalls(r)
    IN  /\ r.kind = "amazon" /\ r.pc = "insert" =>
             /\ 500 * c < Len(r.allOrders)
             /\ StagedPrefix(tempTableId, r.allOrders, c)
        /\ r.kind = "amazon" /\ r.pc = "sleep" =>
             /\ c = Batches(Len(r.allOrders))
             /\ StagedPrefix(tempTableId, r.allOrders, c)
        /\ r.kind = "shopify" /\ r.pc = "insertOrders" =>
             /\ 500 * c < Len(r.ordersForBQ)
             /\ StagedPrefix(tempTableOrders(r.timestamp), r.ordersForBQ, c)
        /\ r.kind = "shopify" /\ r.pc = "insertItems" =>
             LET ci == c - Batches(Len(r.ordersForBQ))
             IN  /\ ci >= 0
                 /\ 500 * ci < Len(r.orderItemsForBQ)
                 /\ StagedPrefix(tempTableOrders(r.timestamp),
                                 r.ordersForBQ, Batches(Len(r.ordersForBQ)))
                 /\ StagedPrefix(tempTableItems(r.timestamp),
                                 r.orderItemsForBQ, ci)
        /\ r.kind = "shopify" /\ r.pc = "sleep" =>
             /\ c = Batches(Len(r.ordersForBQ))
                    + Batches(Len(r.orderItemsForBQ))
             /\ StagedPrefix(tempTableOrders(r.timestamp),
                             r.ordersForBQ, Batches(Len(r.ordersForBQ)))
             /\ StagedPrefix(tempTableItems(r.timestamp),
                             r.orderItemsForBQ,
                             Batches(Len(r.orderItemsForBQ)))

\* 1001 rows have been staged by three insert calls
C36_Witness ==
  \E s \in Slots :
    /\ run[s].kind = "amazon"
    /\ run[s].pc = "sleep"
    /\ Len(run[s].allOrders) = 1001
    /\ InsertCalls(run[s]) = 3
    /\ BagCardinality(temp[tempTableId]) = 1001


\* The fetch of run r is over and has yielded no record.
ZeroRecords(r) ==
  /\ r.error = "none"
  /\ \/ r.kind = "amazon" /\ r.fetch.phase = "fetched"
          /\ Len(r.allOrders) = 0
     \/ r.kind = "shopify" /\ r.fetch.phase = "paged"
          /\ Len(r.allOrders) = 0
     \/ r.kind = "logisp" /\ r.fetch.phase = "checked" /\ r.pc # "fetch"
          /\ Len(r.inventoryData) = 0

\* the calls that stage, wait, merge or clean up
StagingOps ==
  {"dropOld", "create", "insert", "sleep", "mergeOrders", "mergeItems",
   "merge", "delete"}

\* C37: a run whose fetch yields zero records, an Amazon run over an empty
\* interval included, answers success; it creates no staging table, does
\* not wait, issues no merge and leaves the durable tables as they were.
C37_ZeroRecordsChangeNothing ==
  \A s \in Slots :
    ZeroRecords(run[s]) =>
      /\ run[s].pc \in {"convert", "done"}
      /\ run[s].pc = "done" => run[s].outcome = "success"
      /\ \A e \in 1..Len(run[s].log) : run[s].log[e].op \notin StagingOps
      /\ DOMAIN temp = {}
      /\ orders = atStart.orders
      /\ order_items = atStart.order_items
      /\ inventory = atStart.inventory

\* an Amazon run over an empty interval has answered success while orders
\* holds the rows of the run before it
C37_Witness ==
  \E s \in Slots :
    /\ run[s].kind = "amazon"
    /\ ZeroRecords(run[s])
    /\ run[s].fetch.windows = <<>>
    /\ run[s].pc = "done"
    /\ run[s].outcome = "success"
    /\ orders # EmptyBag


\* The columns of an orders row that a matching merge leaves alone.
OrderOrigin(o) ==
  [order_id |-> o.order_id, channel |-> o.channel,
   account_name |-> o.account_name, created_at |-> o.created_at]

\* The same for an order_items row.
ItemOrigin(t) ==
  [order_id |-> t.order_id, channel |-> t.channel,
   line_item_id |-> t.line_item_id, created_at |-> t.created_at]

\* C38: no step changes the key fields, the account_name or the created_at
\* of a row of orders or order_items: every row keeps them, whatever merge
\* matches it, so created_at stays the one of the run that inserted the key.
C38_OriginKept ==
  [][/\ BagOfAll(OrderOrigin, orders) \sqsubseteq BagOfAll(OrderOrigin, orders')
     /\ BagOfAll(ItemOrigin, order_items)
          \sqsubseteq BagOfAll(ItemOrigin, order_items')]_vars

\* a second run has matched and updated the orders row the first inserted,
\* and its line item
C38_Witness ==
  /\ \E o \in DOMAIN orders : o.created_at = 1 /\ o.updated_at = 2
  /\ \E t \in DOMAIN order_items : t.created_at = 1 /\ t.quantity = 2
  /\ \E s \in Slots : run[s].no = 2 /\ run[s].pc = "done"
                        /\ run[s].outcome = "success"


\* The page budget ended the loop of run r: the last request was the
\* 20th, or the 200th with full_sync, and its response gave a next cursor.
BudgetExhausted(r) ==
  LET req == r.fetch.requests
      n == Len(req)
  IN  /\ r.fetch.phase = "paged"
      /\ n = IF r.fetch.isFullSync THEN 200 ELSE 20
      /\ nextLinkMatch(ServedPage(upstream.source, req[n].page_info).link)
           # NoToken

\* C39: a Shopify run sends at most 20 page requests, 200 with full_sync;
\* when the budget ends the loop while the last response had a next cursor
\* the fetch does not fail: the run goes on with the orders of the pages it
\* fetched, and when it answers success those are the orders it merged and
\* pages_fetched is the budget.
C39_PageBudgetEndsQuietly ==
  \A s \in Slots :
    LET r == run[s]
        f == r.fetch
    IN  r.kind = "shopify" /\ f.phase \in {"paging", "paged"} =>
          /\ Len(f.requests) = f.pageCount
          /\ f.pageCount <= IF f.isFullSync THEN 200 ELSE 20
          /\ BudgetExhausted(r) =>
               /\ r.error # "fetch"
               /\ r.allOrders =
                    Flatten([k \in 1..Len(f.requests) |->
                      ServedPage(upstream.source,
                                 f.requests[k].page_info).orders])
               /\ Finished(r) /\ r.error = "none" =>
                    /\ r.outcome = "success"
                    /\ f.pageCount = IF f.isFullSync THEN 200 ELSE 20
                    /\ {OrderKey(t) : t \in DOMAIN orders} =
                         {OrderKey(OrderForBQ(r.allOrders[k], r.no)) :
                            k \in 1..Len(r.allOrders)}

\* an incremental run has answered success after 20 pages, the last with a
\* next cursor, and has merged their orders
C39_Witness ==
  \E s \in Slots :
    /\ run[s].kind = "shopify"
    /\ BudgetExhausted(run[s])
    /\ ~run[s].fetch.isFullSync
    /\ run[s].fetch.pageCount = 20
    /\ run[s].pc = "done"
    /\ run[s].outcome = "success"
    /\ orders # EmptyBag


\* How many alerts of run r have the level.
AlertCount(r, level) ==
  Cardinality({j \in DOMAIN r.fetch.alerts :
                 r.fetch.alerts[j].alert_level = level})

\* C40: the summary of a posted notification shows as Critical the number
\* of CRITICAL alerts of the run cut to 10 and as Warning the number of all
\* its WARNING alerts; a run without alerts posts nothing.
C40_SummaryCounts ==
  \A s \in Slots :
    LET r == run[s]
    IN  Forecast(r) =>
          /\ \A k \in DOMAIN r.fetch.posted :
               /\ r.fetch.posted[k].critical
                    = Min(AlertCount(r, "CRITICAL"), 10)
               /\ r.fetch.posted[k].warning = AlertCount(r, "WARNING")
          /\ r.fetch.alerts = <<>> =>
               /\ r.fetch.posted = <<>>
               /\ \A e \in 1..Len(r.log) : r.log[e].op # "post"

\* a notification for 11 CRITICAL alerts was posted with Critical: 10
C40_Witness ==
  \E s \in Slots :
    /\ run[s].kind = "alert"
    /\ run[s].fetch.phase = "notified"
    /\ AlertCount(run[s], "CRITICAL") = 11
    /\ Len(run[s].fetch.posted) = 1
    /\ run[s].fetch.posted[1].critical = 10

====
